---- MODULE Spec2Model ----
(***************************************************************************)
(* Model of the Trust Network Tracker (src/src/tools/trust_network.py),    *)
(* of the registries of CoherenceWeaverAgent                               *)
(* (src/src/agents/coherence_weaver_agent.py) and of InMemorySession       *)
(* (src/src/memory/in_memory.py).                                          *)
(*                                                                         *)
(* The tracker's floats are modelled as exact rationals [num, den] in      *)
(* lowest terms: the update rule and the comparisons are evaluated as the  *)
(* code writes them, without the rounding error of IEEE doubles.           *)
(*                                                                         *)
(* Specifications: Spec, the tracker scoring agents over the full range of *)
(* update_trust arguments; SpecScores, the same with scores next to the    *)
(* tier thresholds; SpecStore, the tracker and its data file (any initial  *)
(* file, saves that fail, a second tracker on the same path); SpecTools,   *)
(* the tools of create_trust_network_tools beside the methods they wrap;   *)
(* SpecSingleton, the module-level tracker instance and the tools made     *)
(* over it; SpecRegistry, SpecTasks and SpecGroups, the agent under        *)
(* registration calls alone, with task and relay calls, with group calls;  *)
(* SpecSession, the session store.                                         *)
(***************************************************************************)
EXTENDS Integers, Sequences, FiniteSets, TLC

(***************************************************************************)
(* Bounds of the model.                                                    *)
(***************************************************************************)
\* update_trust calls made on the tracker, all agents together
MaxCalls == 3
\* length of the agent_ids list handed to get_collaboration_recommendation
MaxIds == 2
\* length of a strengths / areas_for_growth list handed to update_trust
MaxLabels == 2
\* tasks assigned by assign_task
MaxTasks == 2
\* messages relayed by relay_message
MaxRelayed == 1
\* groups stored by create_agent_group
MaxGroups == 2

(***************************************************************************)
(* Rational arithmetic (the code's float arithmetic, made exact).          *)
(***************************************************************************)
Abs(i) == IF i < 0 THEN -i ELSE i

RECURSIVE GCD(_, _)
GCD(a, b) == IF b = 0 THEN a ELSE GCD(b, a % b)

Rat(n, d) ==
    LET g == GCD(Abs(n), d) IN [num |-> n \div g, den |-> d \div g]

RAdd(x, y) == Rat(x.num * y.den + y.num * x.den, x.den * y.den)
RSub(x, y) == Rat(x.num * y.den - y.num * x.den, x.den * y.den)
RMulInt(x, k) == Rat(x.num * k, x.den)
RDivInt(x, k) == Rat(x.num, x.den * k)
RLess(x, y) == x.num * y.den < y.num * x.den
RGeq(x, y) == x.num * y.den >= y.num * x.den
RGreater(x, y) == x.num * y.den > y.num * x.den

Zero == Rat(0, 1)
One == Rat(1, 1)

(***************************************************************************)
(* Inputs.                                                                 *)
(***************************************************************************)
AgentIds == {"a1", "a2"}

\* interaction_quality / reliability_score values a caller reports: 0.2, 0.8
\* (UpdateArgs adds 0.0 and 1.0)
Scores == {Rat(1, 5), Rat(4, 5)}

\* An optional argument: NoneArg is Python's None, Some(v) a supplied value.
NoneArg == [some |-> FALSE]
Some(v) == [some |-> TRUE, val |-> v]

StyleNames == {"analytical", "directive"}
\* collaboration_style arguments: None, the empty string, or a style name
StyleArgs == {NoneArg} \cup {Some(s) : s \in StyleNames \cup {""}}

StrengthLabels == {"x", "y"}
AreaLabels == {"g"}

SeqsUpTo(S, n) == UNION {[1..k -> S] : k \in 0..n}

StrengthArgs == {NoneArg} \cup {Some(l) : l \in SeqsUpTo(StrengthLabels, MaxLabels)}
AreaArgs == {NoneArg} \cup {Some(l) : l \in SeqsUpTo(AreaLabels, MaxLabels)}

\* The argument lists <<interaction_quality, reliability_score,
\* collaboration_style, strengths, areas_for_growth>> update_trust is called
\* with: every pair of scores with no optional argument, the two ends of the
\* score range (0.0 and 1.0) against each other and, with both scores equal,
\* each optional argument alone and all three together.
UpdateArgs ==
    {<<q, r, NoneArg, NoneArg, NoneArg>> : q \in Scores, r \in Scores}
    \cup {<<Zero, One, NoneArg, NoneArg, NoneArg>>,
          <<One, Zero, NoneArg, NoneArg, NoneArg>>}
    \cup {<<s, s, st, NoneArg, NoneArg>> : s \in Scores, st \in StyleArgs}
    \cup {<<s, s, NoneArg, l, NoneArg>> : s \in Scores, l \in StrengthArgs}
    \cup {<<s, s, NoneArg, NoneArg, l>> : s \in Scores, l \in AreaArgs}
    \cup {<<s, s, Some("analytical"), Some(<<"x", "y">>), Some(<<"g">>)>> :
             s \in Scores}

\* agent_ids lists of a recommendation request (ids may repeat, may be unknown)
IdLists == SeqsUpTo(AgentIds, MaxIds)

\* mutant: "is not None" in place of truthiness
SuppliedStr(arg) == arg.some

\* Python truthiness of an optional str / list argument: None, "" and [] are falsy
TruthyStr(arg) == arg.some /\ arg.val # ""
TruthyList(arg) == arg.some /\ arg.val # <<>>

(***************************************************************************)
(* State.                                                                  *)
(***************************************************************************)
VARIABLES
    trust_network,  \* self.trust_network: agent id -> profile
    result,         \* the value the last call returned
    last_call,      \* the last call: its name and the ids it was given
    observed,       \* history: per agent, what the update_trust calls supplied
    data_file,      \* the file at data_path
    constructed,    \* TrustNetworkTracker(data_path) returned an instance
    second,         \* a second TrustNetworkTracker over the same data_path
    failed_saves,   \* history: how many _save_network calls failed
    initial_file,   \* history: the file the first tracker was constructed over
    instance,       \* _trust_network_instance: "none", "first" or "second"
    tools           \* the trackers that created tools hold: "first", "second"

\* CoherenceWeaverAgent (src/src/agents/coherence_weaver_agent.py)
VARIABLES
    registered_agents,  \* self.registered_agents: agent id -> registration
    agent_endpoints,    \* self.agent_endpoints: agent id -> endpoint
    tasks,              \* self.tasks: task id -> assignment
    task_results,       \* self.task_results: task id -> result
    agent_groups,       \* self.agent_groups: group id -> group
    conversations,      \* self.state.conversations: conversation id -> conversation
    memory,             \* self.state.memory: key -> value
    uuids,              \* how many uuid4 values have been drawn
    weaver_call,        \* the last call on the agent
    weaver_result,      \* the value it returned
    weaver_history      \* history: what register_agent / update_task_status were given

\* InMemorySession (src/src/memory/in_memory.py)
VARIABLES
    sessions,           \* self._sessions: (session id, data) in insertion order
    session_metadata,   \* self._metadata: session id -> timestamps
    session_call,       \* the last call on the session store
    session_result,     \* the value it returned
    session_history     \* history: per id, the data last stored with success

tracker_vars == <<trust_network, result, last_call, observed, data_file,
                  constructed, second, failed_saves, initial_file, instance, tools>>

weaver_vars == <<registered_agents, agent_endpoints, tasks, task_results,
                 agent_groups, conversations, memory, uuids, weaver_call,
                 weaver_result, weaver_history>>

session_vars == <<sessions, session_metadata, session_call, session_result,
                  session_history>>

vars == <<tracker_vars, weaver_vars, session_vars>>

\* what a method of the tracker leaves alone
beside_tracker == <<initial_file, instance, tools, weaver_vars, session_vars>>

\* the state after CoherenceWeaverAgent(): empty registries, no conversation,
\* empty memory
InitWeaver ==
    /\ registered_agents = << >>
    /\ agent_endpoints = << >>
    /\ tasks = << >>
    /\ task_results = << >>
    /\ agent_groups = << >>
    /\ conversations = << >>
    /\ memory = << >>
    /\ uuids = 0
    /\ weaver_call = [op |-> "init"]
    /\ weaver_result = [none |-> TRUE]
    /\ weaver_history = [registered |-> << >>, updated |-> << >>, relayed |-> 0]

\* the state after InMemorySession(): no session
InitSession ==
    /\ sessions = << >>
    /\ session_metadata = << >>
    /\ session_call = [op |-> "init"]
    /\ session_result = [none |-> TRUE]
    /\ session_history = << >>

Range(s) == {s[i] : i \in 1..Len(s)}

\* the profile update_trust creates for an unseen agent_id
NewProfile ==
    [interactions |-> 0,
     reliability |-> Zero,
     interaction_quality |-> Zero,
     collaboration_style |-> "unknown",
     strengths |-> <<>>,
     areas_for_growth |-> <<>>]

\* mutant: an exponential moving average instead of the running mean
WeightedAverageHalved(current, interaction_count, score) ==
    RDivInt(RAdd(current, score), 2)

\* mutant: the old average weighted by the new count
WeightedAverageOverweighted(current, interaction_count, score) ==
    RDivInt(RAdd(RMulInt(current, interaction_count), score), interaction_count)

\* (current * (interaction_count - 1) + score) / interaction_count
WeightedAverage(current, interaction_count, score) ==
    RDivInt(RAdd(RMulInt(current, interaction_count - 1), score), interaction_count)

\* mutant: every supplied label appended, present or not
AppendAll(list, items) == list \o items

\* for item in items: if item not in list: list.append(item)
RECURSIVE AppendMissing(_, _)
AppendMissing(list, items) ==
    IF items = <<>> THEN list
    ELSE AppendMissing(IF Head(items) \in Range(list) THEN list
                       ELSE Append(list, Head(items)),
                       Tail(items))

\* mutant: the call counted twice
IncrementTwice(n) == n + 2

\* agent_profile["interactions"] += 1
IncrementInteractions(n) == n + 1

\* the profile update_trust leaves for the agent, given the profile it found
UpdatedProfile(p, interaction_quality, reliability_score, collaboration_style, strengths, areas_for_growth) ==
    LET interaction_count == IncrementInteractions(p.interactions) IN
    [interactions |-> interaction_count,
     reliability |->
        WeightedAverage(p.reliability, interaction_count, reliability_score),
     interaction_quality |->
        WeightedAverage(p.interaction_quality, interaction_count, interaction_quality),
     collaboration_style |->
        IF TruthyStr(collaboration_style) THEN collaboration_style.val
        ELSE p.collaboration_style,
     strengths |->
        IF TruthyList(strengths) THEN AppendMissing(p.strengths, strengths.val)
        ELSE p.strengths,
     areas_for_growth |->
        IF TruthyList(areas_for_growth)
        THEN AppendMissing(p.areas_for_growth, areas_for_growth.val)
        ELSE p.areas_for_growth]

\* mutant: the interaction is counted on every profile of the map
UpdateTrustNetworkCountingAll(tn, agent_id, interaction_quality, reliability_score, collaboration_style, strengths, areas_for_growth) ==
    LET p == IF agent_id \in DOMAIN tn THEN tn[agent_id] ELSE NewProfile
        q == UpdatedProfile(p, interaction_quality, reliability_score,
                            collaboration_style, strengths, areas_for_growth)
    IN [a \in (DOMAIN tn) \cup {agent_id} |->
           IF a = agent_id THEN q
           ELSE [tn[a] EXCEPT !.interactions = @ + 1]]

\* mutant: the map is rebuilt with the updated profile alone
UpdateTrustNetworkAlone(tn, agent_id, interaction_quality, reliability_score, collaboration_style, strengths, areas_for_growth) ==
    LET p == IF agent_id \in DOMAIN tn THEN tn[agent_id] ELSE NewProfile
        q == UpdatedProfile(p, interaction_quality, reliability_score,
                            collaboration_style, strengths, areas_for_growth)
    IN [a \in {agent_id} |-> q]

\* self.trust_network after update_trust(agent_id, ...)
UpdateTrustNetwork(tn, agent_id, interaction_quality, reliability_score, collaboration_style, strengths, areas_for_growth) ==
    LET p == IF agent_id \in DOMAIN tn THEN tn[agent_id] ELSE NewProfile
        q == UpdatedProfile(p, interaction_quality, reliability_score,
                            collaboration_style, strengths, areas_for_growth)
    IN [a \in (DOMAIN tn) \cup {agent_id} |-> IF a = agent_id THEN q ELSE tn[a]]

(***************************************************************************)
(* The data file and the JSON document in it.                              *)
(***************************************************************************)
\* data_path names no file
AbsentFile == [kind |-> "absent"]
\* a file open() cannot read or json.load cannot parse: empty, cut short,
\* not JSON, not readable
UnparseableFile == [kind |-> "unparseable"]
\* a file holding the text of one JSON value
JsonFile(doc) == [kind |-> "json", doc |-> doc]

JsonNull == [type |-> "null"]
JsonNumber(x) == [type |-> "number", value |-> x]
JsonString(str) == [type |-> "string", value |-> str]
JsonArray(items) == [type |-> "array", items |-> items]
\* members: the set of <<key, value>> pairs of the object
JsonObject(members) == [type |-> "object", members |-> members]

JsonOfList(list) == JsonArray([i \in 1..Len(list) |-> JsonString(list[i])])

\* mutant: the list-valued fields are not written
JsonOfProfileScalars(p) ==
    JsonObject({<<"interactions", JsonNumber(p.interactions)>>,
                <<"reliability", JsonNumber(p.reliability)>>,
                <<"interaction_quality", JsonNumber(p.interaction_quality)>>,
                <<"collaboration_style", JsonString(p.collaboration_style)>>})

\* what json.dump writes for one profile dict
JsonOfProfile(p) ==
    JsonObject({<<"interactions", JsonNumber(p.interactions)>>,
                <<"reliability", JsonNumber(p.reliability)>>,
                <<"interaction_quality", JsonNumber(p.interaction_quality)>>,
                <<"collaboration_style", JsonString(p.collaboration_style)>>,
                <<"strengths", JsonOfList(p.strengths)>>,
                <<"areas_for_growth", JsonOfList(p.areas_for_growth)>>})

\* json.dump(self.trust_network, f, indent=2): one member per agent id
JsonDump(tn) == JsonObject({<<a, JsonOfProfile(tn[a])>> : a \in DOMAIN tn})

\* json.load: the Python value of a JSON value (null is None)
RECURSIVE JsonLoad(_)
JsonLoad(doc) ==
    CASE doc.type = "null" -> NoneArg
      [] doc.type \in {"number", "string"} -> doc.value
      [] doc.type = "array" ->
            [i \in 1..Len(doc.items) |-> JsonLoad(doc.items[i])]
      [] doc.type = "object" ->
            [k \in {m[1] : m \in doc.members} |->
                JsonLoad((CHOOSE m \in doc.members : m[1] = k)[2])]

\* mutant: the file is never read
LoadNetworkIgnoringFile(file) == << >>

\* mutant: profiles are recovered from a file that does not parse
LoadNetworkSalvaging(file) ==
    CASE file.kind = "json" -> JsonLoad(file.doc)
      [] file.kind = "unparseable" -> [a \in {"a2"} |-> NewProfile]
      [] OTHER -> << >>

\* _load_network: the parsed document if the file exists, is readable and
\* parses; otherwise {}
LoadNetwork(file) ==
    IF file.kind = "json" THEN JsonLoad(file.doc) ELSE << >>

\* the JSON values whose Python value len() accepts
Sized(doc) == doc.type \in {"object", "array", "string"}

\* TrustNetworkTracker(data_path): the loaded map, or the TypeError of
\* len(self.trust_network) when the document is not a sized value
Construct(file) ==
    IF file.kind = "json" /\ ~Sized(file.doc)
    THEN [ok |-> FALSE, raised |-> "TypeError"]
    ELSE [ok |-> TRUE, trust_network |-> LoadNetwork(file)]

\* how one _save_network call ends: the document is written; mkdir or open
\* raises and the file is as it was; open has truncated the file and the
\* write raises
SaveOutcomes == {"saved", "not_opened", "cut_short"}

\* mutant: members of the document already on disk are kept
SaveNetworkMerging(file, tn, outcome) ==
    LET kept == IF file.kind = "json" /\ file.doc.type = "object"
                THEN {m \in file.doc.members : m[1] \notin DOMAIN tn}
                ELSE {}
    IN CASE outcome = "saved" ->
                JsonFile(JsonObject(JsonDump(tn).members \cup kept))
         [] outcome = "not_opened" -> file
         [] outcome = "cut_short" -> UnparseableFile

\* the file after _save_network
SaveNetwork(file, tn, outcome) ==
    CASE outcome = "saved" -> JsonFile(JsonDump(tn))
      [] outcome = "not_opened" -> file
      [] outcome = "cut_short" -> UnparseableFile

\* mutant: the exception of a failed save reaches the caller
UpdateTrustReturnRaising(agent_profile, outcome) ==
    IF outcome = "saved" THEN agent_profile ELSE [raised |-> "OSError"]

\* what update_trust returns after _save_network, which catches and logs
\* every exception
UpdateTrustReturn(agent_profile, outcome) == agent_profile

\* mutant: an unknown id gets a fresh profile
GetAgentProfileOrNew(tn, agent_id) ==
    IF agent_id \in DOMAIN tn THEN tn[agent_id] ELSE NewProfile

\* what get_agent_profile(agent_id) returns
GetAgentProfile(tn, agent_id) ==
    IF agent_id \in DOMAIN tn THEN tn[agent_id]
    ELSE [error |-> "Agent not found in trust network"]

(***************************************************************************)
(* History of the update_trust calls (not program state).                  *)
(***************************************************************************)
NoObservation ==
    [calls |-> 0, sum_reliability |-> Zero, sum_quality |-> Zero,
     style_given |-> NoneArg, style_named |-> NoneArg,
     strengths |-> {}, areas |-> {}]

Observe(o, interaction_quality, reliability_score, collaboration_style, strengths, areas_for_growth) ==
    [calls |-> o.calls + 1,
     sum_reliability |-> RAdd(o.sum_reliability, reliability_score),
     sum_quality |-> RAdd(o.sum_quality, interaction_quality),
     style_given |-> IF collaboration_style.some THEN collaboration_style
                     ELSE o.style_given,
     style_named |-> IF collaboration_style.some /\ collaboration_style.val # ""
                     THEN collaboration_style ELSE o.style_named,
     strengths |-> o.strengths \cup
                   (IF strengths.some THEN Range(strengths.val) ELSE {}),
     areas |-> o.areas \cup
               (IF areas_for_growth.some THEN Range(areas_for_growth.val) ELSE {})]

\* update_trust calls made so far, on either tracker
TotalCalls ==
    observed["a1"].calls + observed["a2"].calls
    + (IF second.state = "live" THEN second.calls ELSE 0)

\* the data files a first tracker is constructed over: none, one that does
\* not parse, one holding the JSON text null
InitialFiles == {AbsentFile, UnparseableFile, JsonFile(JsonNull)}

\* the state after TrustNetworkTracker(data_path) with the file as given
InitOver(file) ==
    LET made == Construct(file)
    IN /\ data_file = file
       /\ constructed = made.ok
       /\ trust_network = (IF made.ok THEN made.trust_network ELSE << >>)
       /\ result = [none |-> TRUE]
       /\ last_call = [op |-> "init"]
       /\ observed = [a \in AgentIds |-> NoObservation]
       /\ second = [state |-> "none"]
       /\ failed_saves = 0
       /\ initial_file = file
       /\ InitWeaver
       /\ InitSession

(***************************************************************************)
(* Initial state: a tracker constructed over an absent data file.          *)
(***************************************************************************)
Init == InitOver(AbsentFile) /\ instance = "none" /\ tools = {}

\* a tracker constructed over any of the initial files
InitStore ==
    /\ \E file \in InitialFiles : InitOver(file)
    /\ instance = "none"
    /\ tools = {}

FailedSaves(outcome) == failed_saves + (IF outcome = "saved" THEN 0 ELSE 1)

UpdateTrust(agent_id, interaction_quality, reliability_score, collaboration_style, strengths, areas_for_growth, outcome) ==
    /\ constructed
    /\ TotalCalls < MaxCalls
    /\ trust_network' =
          UpdateTrustNetwork(trust_network, agent_id, interaction_quality,
                             reliability_score, collaboration_style,
                             strengths, areas_for_growth)
    /\ data_file' = SaveNetwork(data_file, trust_network', outcome)
    /\ result' = UpdateTrustReturn(trust_network'[agent_id], outcome)
    /\ last_call' = [op |-> "update_trust", agent_id |-> agent_id,
                     saved |-> outcome = "saved"]
    /\ observed' = [observed EXCEPT ![agent_id] =
          Observe(@, interaction_quality, reliability_score,
                  collaboration_style, strengths, areas_for_growth)]
    /\ failed_saves' = FailedSaves(outcome)
    /\ UNCHANGED <<constructed, second>>
    /\ UNCHANGED beside_tracker

\* update_trust on a file system where the save succeeds
DoUpdateTrust ==
    \E agent_id \in AgentIds, args \in UpdateArgs :
        UpdateTrust(agent_id, args[1], args[2], args[3], args[4], args[5], "saved")

(***************************************************************************)
(* get_collaboration_recommendation                                        *)
(***************************************************************************)
RECURSIVE SumRat(_)
SumRat(values) ==
    IF values = <<>> THEN Zero ELSE RAdd(Head(values), SumRat(Tail(values)))

RECURSIVE Concat(_)
Concat(lists) ==
    IF lists = <<>> THEN <<>> ELSE Head(lists) \o Concat(Tail(lists))

RMax(values) ==
    CHOOSE v \in Range(values) : \A w \in Range(values) : RGeq(v, w)
RMin(values) ==
    CHOOSE v \in Range(values) : \A w \in Range(values) : RGeq(w, v)

\* mutant: the digits after the second decimal are cut off
Round2Truncating(x) == Rat((x.num * 100) \div x.den, 100)

\* round(x, 2): the nearest hundredth, a tie going to the even one
Round2(x) ==
    LET n == x.num * 100
        fl == n \div x.den
        rem == n % x.den
        h == IF 2 * rem > x.den THEN fl + 1
             ELSE IF 2 * rem < x.den THEN fl
             ELSE IF fl % 2 = 0 THEN fl ELSE fl + 1
    IN Rat(h, 100)

\* mutant: the scan stops at the first missing id
FirstMissingAgent(tn, agent_ids) ==
    LET missing == SelectSeq(agent_ids, LAMBDA agent_id : agent_id \notin DOMAIN tn)
    IN IF missing = <<>> THEN <<>> ELSE <<Head(missing)>>

\* [agent_id for agent_id in agent_ids if agent_id not in self.trust_network]
MissingAgents(tn, agent_ids) ==
    SelectSeq(agent_ids, LAMBDA agent_id : agent_id \notin DOMAIN tn)

\* sum(self.trust_network[agent_id][field] for agent_id in agent_ids) / len(agent_ids)
Average(values) == RDivInt(SumRat(values), Len(values))

\* mutant: strict comparisons at the tier thresholds
PotentialStrict(collaboration_score) ==
    IF RGreater(collaboration_score, Rat(4, 5)) THEN "very high"
    ELSE IF RGreater(collaboration_score, Rat(3, 5)) THEN "high"
    ELSE IF RGreater(collaboration_score, Rat(2, 5)) THEN "moderate"
    ELSE "challenging"

\* the if / elif chain on collaboration_score
Potential(collaboration_score) ==
    IF RGeq(collaboration_score, Rat(4, 5)) THEN "very high"
    ELSE IF RGeq(collaboration_score, Rat(3, 5)) THEN "high"
    ELSE IF RGeq(collaboration_score, Rat(2, 5)) THEN "moderate"
    ELSE "challenging"

\* strength_counts[strength], for the strengths gathered from all agent_ids
StrengthCount(all_strengths, strength) ==
    Cardinality({i \in 1..Len(all_strengths) : all_strengths[i] = strength})

\* the keys of strength_counts, in the order the dict holds them
StrengthKeys(all_strengths) == AppendMissing(<<>>, all_strengths)

CommonStrengths(all_strengths) ==
    SelectSeq(StrengthKeys(all_strengths),
              LAMBDA s : StrengthCount(all_strengths, s) > 1)

UniqueStrengths(all_strengths) ==
    SelectSeq(StrengthKeys(all_strengths),
              LAMBDA s : StrengthCount(all_strengths, s) = 1)

\* The sentences of recommended_approach: the text, and for the first one
\* the strengths joined into it.
LeverageSentence(common_strengths) ==
    [text |-> "Leverage common strengths: ", joined |-> common_strengths]
AssignSentence ==
    [text |-> "Assign tasks based on unique agent strengths", joined |-> <<>>]
VerifySentence ==
    [text |-> "Implement verification steps to ensure reliability", joined |-> <<>>]

\* mutant: the three checks chained with elif
RecommendedApproachChained(common_strengths, unique_strengths, avg_reliability) ==
    IF common_strengths # <<>> THEN <<LeverageSentence(common_strengths)>>
    ELSE IF unique_strengths # <<>> THEN <<AssignSentence>>
    ELSE IF RLess(avg_reliability, Rat(1, 2)) THEN <<VerifySentence>>
    ELSE <<>>

RecommendedApproach(common_strengths, unique_strengths, avg_reliability) ==
    (IF common_strengths # <<>> THEN <<LeverageSentence(common_strengths)>> ELSE <<>>)
    \o (IF unique_strengths # <<>> THEN <<AssignSentence>> ELSE <<>>)
    \o (IF RLess(avg_reliability, Rat(1, 2)) THEN <<VerifySentence>> ELSE <<>>)

StyleChallenge == "Different collaboration styles may require adaptation"
ReliabilityChallenge == "Significant reliability differences between agents"

\* mutant: the "unknown" test dropped
StylesDiffer(styles) == Cardinality(styles) > 1

\* len(styles) > 1 and "unknown" not in styles
StylesNeedAdaptation(styles) ==
    Cardinality(styles) > 1 /\ "unknown" \notin styles

\* mutant: a difference of exactly 0.3 counts
ReliabilityDisparityInclusive(reliability_values) ==
    RGeq(RSub(RMax(reliability_values), RMin(reliability_values)), Rat(3, 10))

\* max(reliability_values) - min(reliability_values) > 0.3
ReliabilityDisparity(reliability_values) ==
    RGreater(RSub(RMax(reliability_values), RMin(reliability_values)), Rat(3, 10))

Challenges(styles, reliability_values) ==
    (IF StylesNeedAdaptation(styles) THEN <<StyleChallenge>> ELSE <<>>)
    \o (IF ReliabilityDisparity(reliability_values)
        THEN <<ReliabilityChallenge>> ELSE <<>>)

\* the dict returned when every id has a profile and agent_ids is not empty
Recommendation(tn, agent_ids) ==
    LET n == Len(agent_ids)
        reliability_values == [i \in 1..n |-> tn[agent_ids[i]].reliability]
        quality_values == [i \in 1..n |-> tn[agent_ids[i]].interaction_quality]
        avg_reliability == Average(reliability_values)
        avg_quality == Average(quality_values)
        collaboration_score == RDivInt(RAdd(avg_reliability, avg_quality), 2)
        all_strengths == Concat([i \in 1..n |-> tn[agent_ids[i]].strengths])
        common_strengths == CommonStrengths(all_strengths)
        unique_strengths == UniqueStrengths(all_strengths)
        styles == {tn[agent_ids[i]].collaboration_style : i \in 1..n}
    IN [collaboration_potential |-> Potential(collaboration_score),
        collaboration_score |-> Round2(collaboration_score),
        recommended_approach |->
            RecommendedApproach(common_strengths, unique_strengths, avg_reliability),
        potential_challenges |-> Challenges(styles, reliability_values),
        common_strengths |-> common_strengths,
        unique_strengths |-> unique_strengths,
        agents |-> [a \in Range(agent_ids) |-> tn[a]]]

\* What get_collaboration_recommendation(agent_ids) gives its caller.  With
\* an empty agent_ids nothing is missing and the division by len(agent_ids)
\* raises ZeroDivisionError.
GetCollaborationRecommendation(tn, agent_ids) ==
    LET missing_agents == MissingAgents(tn, agent_ids) IN
    IF missing_agents # <<>>
    THEN [error |-> "Agents not found in trust network",
          missing_agents |-> missing_agents]
    ELSE IF Len(agent_ids) = 0
    THEN [raised |-> "ZeroDivisionError"]
    ELSE Recommendation(tn, agent_ids)

GetRecommendation(agent_ids) ==
    /\ constructed
    /\ result' = GetCollaborationRecommendation(trust_network, agent_ids)
    /\ last_call' = [op |-> "get_collaboration_recommendation",
                     agent_ids |-> agent_ids]
    /\ UNCHANGED <<trust_network, observed, data_file, constructed, second,
                   failed_saves>>
    /\ UNCHANGED beside_tracker

DoGetRecommendation == \E agent_ids \in IdLists : GetRecommendation(agent_ids)

GetProfile(agent_id) ==
    /\ constructed
    /\ result' = GetAgentProfile(trust_network, agent_id)
    /\ last_call' = [op |-> "get_agent_profile", agent_id |-> agent_id]
    /\ UNCHANGED <<trust_network, observed, data_file, constructed, second,
                   failed_saves>>
    /\ UNCHANGED beside_tracker

DoGetProfile == \E agent_id \in AgentIds : GetProfile(agent_id)

\* The tracker scoring agents, on a file system where every save succeeds.
Next == DoUpdateTrust \/ DoGetRecommendation

Spec == Init /\ [][Next]_vars

(***************************************************************************)
(* Scores next to the tier thresholds: reports of 0.398, 0.598 and 0.798,  *)
(* which rounding to two decimals lifts onto 0.4, 0.6 and 0.8, beside      *)
(* reports of 0.2 and 0.8.                                                 *)
(***************************************************************************)
FineScores == {Rat(199, 500), Rat(299, 500), Rat(399, 500), Rat(1, 5), Rat(4, 5)}

FineArgs == {<<s, s, NoneArg, NoneArg, NoneArg>> : s \in FineScores}

FineUpdateTrust ==
    \E agent_id \in AgentIds, args \in FineArgs :
        UpdateTrust(agent_id, args[1], args[2], args[3], args[4], args[5], "saved")

NextScores == FineUpdateTrust \/ DoGetRecommendation

SpecScores == Init /\ [][NextScores]_vars

(***************************************************************************)
(* The store: any initial file, saves that fail and a second tracker over  *)
(* the same file.                                                          *)
(***************************************************************************)
\* the argument lists of update_trust calls against the store: scores
\* alone, and every optional argument supplied
StoreArgs ==
    {<<Rat(4, 5), Rat(1, 5), NoneArg, NoneArg, NoneArg>>,
     <<Rat(1, 5), Rat(1, 5), Some("analytical"), Some(<<"x">>), Some(<<"g">>)>>}

StoreUpdateTrust ==
    \E agent_id \in AgentIds, args \in StoreArgs, outcome \in SaveOutcomes :
        UpdateTrust(agent_id, args[1], args[2], args[3], args[4], args[5], outcome)

\* TrustNetworkTracker(data_path) a second time, over the file as it is now
ConstructSecond ==
    /\ second.state = "none"
    /\ second' = LET made == Construct(data_file)
                 IN IF made.ok
                    THEN [state |-> "live", trust_network |-> made.trust_network,
                          calls |-> 0, result |-> [none |-> TRUE], saved |-> FALSE]
                    ELSE [state |-> "raised", raised |-> made.raised]
    /\ UNCHANGED <<trust_network, result, last_call, observed, data_file,
                   constructed, failed_saves>>
    /\ UNCHANGED beside_tracker

\* update_trust on the second tracker
SecondUpdateTrust(agent_id, interaction_quality, reliability_score, collaboration_style, strengths, areas_for_growth, outcome) ==
    /\ second.state = "live"
    /\ TotalCalls < MaxCalls
    /\ LET tn == UpdateTrustNetwork(second.trust_network, agent_id,
                                    interaction_quality, reliability_score,
                                    collaboration_style, strengths,
                                    areas_for_growth)
       IN /\ second' = [state |-> "live", trust_network |-> tn,
                        calls |-> second.calls + 1,
                        result |-> UpdateTrustReturn(tn[agent_id], outcome),
                        saved |-> outcome = "saved"]
          /\ data_file' = SaveNetwork(data_file, tn, outcome)
    /\ failed_saves' = FailedSaves(outcome)
    /\ UNCHANGED <<trust_network, result, last_call, observed, constructed>>
    /\ UNCHANGED beside_tracker

DoSecondUpdateTrust ==
    \E agent_id \in AgentIds, args \in StoreArgs, outcome \in SaveOutcomes :
        SecondUpdateTrust(agent_id, args[1], args[2], args[3], args[4], args[5], outcome)

NextStore ==
    \/ StoreUpdateTrust
    \/ DoGetRecommendation
    \/ DoGetProfile
    \/ ConstructSecond
    \/ DoSecondUpdateTrust

SpecStore == InitStore /\ [][NextStore]_vars

(***************************************************************************)
(* The tools of create_trust_network_tools, beside the methods they wrap.  *)
(***************************************************************************)
\* ToolContext(): an object with an empty metadata dict
NewToolContext == [metadata |-> << >>]

\* the tool_context a caller gives a tool: none, or a context of its own
ToolContextArgs == {NoneArg, Some([metadata |-> [caller |-> "agent"]])}

\* FunctionTool.__call__: the tool_context keyword handed on to fn
FunctionToolContext(tool_context) ==
    IF tool_context.some THEN tool_context.val ELSE NewToolContext

\* mutant: the two scores reach update_trust in each other's place
UpdateTrustToolSwapped(tn, agent_id, interaction_quality, reliability_score, collaboration_style, strengths, areas_for_growth, tool_context) ==
    UpdateTrustNetwork(tn, agent_id, reliability_score, interaction_quality,
                       collaboration_style, strengths, areas_for_growth)

\* the lambda of update_trust_tool: network.update_trust with the named
\* arguments, tool_context left out
UpdateTrustTool(tn, agent_id, interaction_quality, reliability_score, collaboration_style, strengths, areas_for_growth, tool_context) ==
    UpdateTrustNetwork(tn, agent_id, interaction_quality, reliability_score,
                       collaboration_style, strengths, areas_for_growth)

\* the lambda of get_agent_profile_tool
GetAgentProfileTool(tn, agent_id, tool_context) == GetAgentProfile(tn, agent_id)

\* the lambda of get_collaboration_recommendation_tool
GetCollaborationRecommendationTool(tn, agent_ids, tool_context) ==
    GetCollaborationRecommendation(tn, agent_ids)

\* update_trust_tool(agent_id, ..., [tool_context])
ToolUpdateTrust(agent_id, interaction_quality, reliability_score, collaboration_style, strengths, areas_for_growth, outcome, tool_context) ==
    /\ "first" \in tools
    /\ TotalCalls < MaxCalls
    /\ trust_network' =
          UpdateTrustTool(trust_network, agent_id, interaction_quality,
                          reliability_score, collaboration_style, strengths,
                          areas_for_growth, FunctionToolContext(tool_context))
    /\ data_file' = SaveNetwork(data_file, trust_network', outcome)
    /\ result' = UpdateTrustReturn(trust_network'[agent_id], outcome)
    /\ last_call' = [op |-> "update_trust", agent_id |-> agent_id,
                     saved |-> outcome = "saved", tool_context |-> tool_context]
    /\ observed' = [observed EXCEPT ![agent_id] =
          Observe(@, interaction_quality, reliability_score,
                  collaboration_style, strengths, areas_for_growth)]
    /\ failed_saves' = FailedSaves(outcome)
    /\ UNCHANGED <<constructed, second>>
    /\ UNCHANGED beside_tracker

DoToolUpdateTrust ==
    \E agent_id \in AgentIds, args \in StoreArgs, outcome \in SaveOutcomes, tool_context \in ToolContextArgs :
        ToolUpdateTrust(agent_id, args[1], args[2], args[3], args[4], args[5], outcome, tool_context)

\* get_agent_profile_tool(agent_id, [tool_context])
ToolGetProfile(agent_id, tool_context) ==
    /\ "first" \in tools
    /\ result' = GetAgentProfileTool(trust_network, agent_id,
                                     FunctionToolContext(tool_context))
    /\ last_call' = [op |-> "get_agent_profile", agent_id |-> agent_id,
                     tool_context |-> tool_context]
    /\ UNCHANGED <<trust_network, observed, data_file, constructed, second,
                   failed_saves>>
    /\ UNCHANGED beside_tracker

DoToolGetProfile ==
    \E agent_id \in AgentIds, tool_context \in ToolContextArgs :
        ToolGetProfile(agent_id, tool_context)

\* get_collaboration_recommendation_tool(agent_ids, [tool_context])
ToolGetRecommendation(agent_ids, tool_context) ==
    /\ "first" \in tools
    /\ result' = GetCollaborationRecommendationTool(trust_network, agent_ids,
                                     FunctionToolContext(tool_context))
    /\ last_call' = [op |-> "get_collaboration_recommendation",
                     agent_ids |-> agent_ids, tool_context |-> tool_context]
    /\ UNCHANGED <<trust_network, observed, data_file, constructed, second,
                   failed_saves>>
    /\ UNCHANGED beside_tracker

DoToolGetRecommendation ==
    \E agent_ids \in IdLists, tool_context \in ToolContextArgs :
        ToolGetRecommendation(agent_ids, tool_context)

NextTools ==
    \/ StoreUpdateTrust
    \/ DoGetRecommendation
    \/ DoGetProfile
    \/ DoToolUpdateTrust
    \/ DoToolGetProfile
    \/ DoToolGetRecommendation

\* get_trust_network() has made the first tracker and
\* create_trust_network_tools() has made the tools over it
InitTools == InitOver(AbsentFile) /\ instance = "first" /\ tools = {"first"}

SpecTools == InitTools /\ [][NextTools]_vars

(***************************************************************************)
(* The module-level singleton: _trust_network_instance, get_trust_network, *)
(* initialize_trust_network, create_trust_network_tools.  No tracker       *)
(* exists when the module is loaded.  The model holds two trackers: the    *)
(* first one made and the one made after it.                               *)
(***************************************************************************)
\* the state after import: _trust_network_instance = None, no tracker, no
\* tools, no data file
InitSingleton ==
    /\ data_file = AbsentFile
    /\ constructed = FALSE
    /\ trust_network = << >>
    /\ result = [none |-> TRUE]
    /\ last_call = [op |-> "init"]
    /\ observed = [a \in AgentIds |-> NoObservation]
    /\ second = [state |-> "none"]
    /\ failed_saves = 0
    /\ initial_file = AbsentFile
    /\ instance = "none"
    /\ tools = {}
    /\ InitWeaver
    /\ InitSession

\* a tracker can still be made
CanConstruct == ~constructed \/ second.state = "none"

\* _trust_network_instance = TrustNetworkTracker(): the new tracker loads the
\* file as it is now; if the constructor raises, the name keeps its value
AssignNewTracker ==
    LET made == Construct(data_file)
    IN IF ~constructed
       THEN /\ constructed' = made.ok
            /\ trust_network' = (IF made.ok THEN made.trust_network ELSE << >>)
            /\ instance' = (IF made.ok THEN "first" ELSE instance)
            /\ UNCHANGED second
       ELSE /\ second' = (IF made.ok
                          THEN [state |-> "live",
                                trust_network |-> made.trust_network,
                                calls |-> 0, result |-> [none |-> TRUE],
                                saved |-> FALSE]
                          ELSE [state |-> "raised", raised |-> made.raised])
            /\ instance' = (IF made.ok THEN "second" ELSE instance)
            /\ UNCHANGED <<constructed, trust_network>>

\* the body of get_trust_network: a tracker is made only if the name is None
GetInstance ==
    IF instance = "none"
    THEN CanConstruct /\ AssignNewTracker
    ELSE UNCHANGED <<constructed, trust_network, second, instance>>

\* the map of a tracker
TrackerMap(tracker) ==
    IF tracker = "first" THEN trust_network ELSE second.trust_network

\* get_trust_network()
GetTrustNetwork ==
    /\ GetInstance
    /\ result' = (IF instance' = "none" THEN [raised |-> "TypeError"]
                  ELSE [tracker |-> instance'])
    /\ last_call' = [op |-> "get_trust_network"]
    /\ UNCHANGED <<observed, data_file, failed_saves, initial_file, tools,
                   weaver_vars, session_vars>>

\* initialize_trust_network(): a new tracker, whatever the name held
InitializeTrustNetwork ==
    /\ CanConstruct
    /\ AssignNewTracker
    /\ result' = (IF Construct(data_file).ok THEN [none |-> TRUE]
                  ELSE [raised |-> "TypeError"])
    /\ last_call' = [op |-> "initialize_trust_network"]
    /\ UNCHANGED <<observed, data_file, failed_saves, initial_file, tools,
                   weaver_vars, session_vars>>

\* create_trust_network_tools(): network = get_trust_network(), and three
\* tools whose lambdas hold that network
CreateTrustNetworkTools ==
    /\ GetInstance
    /\ tools' = (IF instance' = "none" THEN tools ELSE tools \cup {instance'})
    /\ result' = (IF instance' = "none" THEN [raised |-> "TypeError"]
                  ELSE [tools |-> instance'])
    /\ last_call' = [op |-> "create_trust_network_tools"]
    /\ UNCHANGED <<observed, data_file, failed_saves, initial_file,
                   weaver_vars, session_vars>>

\* update_trust_tool of tools made over the second tracker
ToolUpdateTrustOnSecond(agent_id, interaction_quality, reliability_score, collaboration_style, strengths, areas_for_growth, outcome, tool_context) ==
    /\ "second" \in tools
    /\ second.state = "live"
    /\ TotalCalls < MaxCalls
    /\ LET tn == UpdateTrustTool(second.trust_network, agent_id,
                                 interaction_quality, reliability_score,
                                 collaboration_style, strengths,
                                 areas_for_growth,
                                 FunctionToolContext(tool_context))
       IN /\ second' = [state |-> "live", trust_network |-> tn,
                        calls |-> second.calls + 1,
                        result |-> UpdateTrustReturn(tn[agent_id], outcome),
                        saved |-> outcome = "saved"]
          /\ data_file' = SaveNetwork(data_file, tn, outcome)
    /\ failed_saves' = FailedSaves(outcome)
    /\ UNCHANGED <<trust_network, result, last_call, observed, constructed>>
    /\ UNCHANGED beside_tracker

DoToolUpdateTrustOnSecond ==
    \E agent_id \in AgentIds, args \in StoreArgs, outcome \in SaveOutcomes, tool_context \in ToolContextArgs :
        ToolUpdateTrustOnSecond(agent_id, args[1], args[2], args[3], args[4], args[5], outcome, tool_context)

\* get_trust_network().get_agent_profile(agent_id)
CurrentGetProfile(agent_id) ==
    /\ GetInstance
    /\ result' = (IF instance' = "none" THEN [raised |-> "TypeError"]
                  ELSE GetAgentProfile(IF instance' = "first"
                                       THEN trust_network'
                                       ELSE second'.trust_network, agent_id))
    /\ last_call' = [op |-> "get_agent_profile", agent_id |-> agent_id]
    /\ UNCHANGED <<observed, data_file, failed_saves, initial_file, tools,
                   weaver_vars, session_vars>>

DoCurrentGetProfile == \E agent_id \in AgentIds : CurrentGetProfile(agent_id)

NextSingleton ==
    \/ GetTrustNetwork
    \/ InitializeTrustNetwork
    \/ CreateTrustNetworkTools
    \/ DoToolUpdateTrust
    \/ DoToolUpdateTrustOnSecond
    \/ DoCurrentGetProfile

SpecSingleton == InitSingleton /\ [][NextSingleton]_vars

(***************************************************************************)
(* CoherenceWeaverAgent (src/src/agents/coherence_weaver_agent.py) over    *)
(* the state of BaseAgent (src/src/agents/base_agent.py).  A Python dict   *)
(* is a function; the clock reading a registration or a group is stamped   *)
(* with is left out.                                                       *)
(***************************************************************************)
\* d[key] = value
Put(d, key, value) ==
    [k \in DOMAIN d \cup {key} |-> IF k = key THEN value ELSE d[k]]

\* del d[key]
Del(d, key) == [k \in DOMAIN d \ {key} |-> d[k]]

\* the AgentProfile objects given to register_agent: one per agent id
AgentProfiles == {[id |-> a, name |-> <<"name of", a>>] : a \in AgentIds}

\* endpoint arguments
Endpoints == {"http://e1", "http://e2"}

\* api_key arguments: left out (None), empty, or a key
ApiKeyArgs == {NoneArg, Some(""), Some("k1"), Some("k2")}

\* the memory key f"api_key_{agent_id}"
ApiKeyName(agent_id) == <<"api_key_", agent_id>>

\* BaseAgent.get_memory(key): the stored value, or the default None
GetMemory(mem, key) == IF key \in DOMAIN mem THEN mem[key] ELSE NoneArg

\* this step leaves the tracker and the session store alone
OnlyWeaver == UNCHANGED <<tracker_vars, session_vars>>

\* register_agent(profile, endpoint, api_key): both maps get the entry of
\* profile.id, replacing an earlier one; the key is stored if it is truthy
RegisterAgent(profile, endpoint, api_key) ==
    LET agent_id == profile.id
    IN /\ registered_agents' =
             Put(registered_agents, agent_id,
                 [profile |-> profile, status |-> "active"])
       /\ agent_endpoints' = Put(agent_endpoints, agent_id, endpoint)
       /\ memory' = (IF TruthyStr(api_key)
                     THEN Put(memory, ApiKeyName(agent_id), api_key)
                     ELSE memory)
       /\ weaver_result' = [status |-> "success",
                            message |-> <<"registered", profile.name>>,
                            agent_id |-> agent_id]
       /\ weaver_call' = [op |-> "register_agent", agent_id |-> agent_id]
       /\ weaver_history' =
             [weaver_history EXCEPT !.registered = Put(@, agent_id, api_key)]
       /\ UNCHANGED <<tasks, task_results, agent_groups, conversations, uuids>>
       /\ OnlyWeaver

DoRegisterAgent ==
    \E profile \in AgentProfiles, endpoint \in Endpoints, api_key \in ApiKeyArgs :
        RegisterAgent(profile, endpoint, api_key)

\* mutant: the endpoint of an unregistered agent is kept
UnregisteredEndpointsKept(endpoints, agent_id) == endpoints

\* del self.agent_endpoints[agent_id]
UnregisteredEndpoints(endpoints, agent_id) == Del(endpoints, agent_id)

\* unregister_agent(agent_id): an error result if the id is not registered;
\* otherwise both entries are deleted and a truthy stored key is set to None
UnregisterAgent(agent_id) ==
    /\ IF agent_id \notin DOMAIN registered_agents
       THEN /\ weaver_result' = [status |-> "error",
                                 message |-> <<"not registered", agent_id>>]
            /\ UNCHANGED <<registered_agents, agent_endpoints, memory>>
       ELSE /\ registered_agents' = Del(registered_agents, agent_id)
            /\ agent_endpoints' = UnregisteredEndpoints(agent_endpoints, agent_id)
            /\ memory' = (IF TruthyStr(GetMemory(memory, ApiKeyName(agent_id)))
                          THEN Put(memory, ApiKeyName(agent_id), NoneArg)
                          ELSE memory)
            /\ weaver_result' =
                  [status |-> "success",
                   message |-> <<"unregistered",
                                 registered_agents[agent_id].profile.name>>]
    /\ weaver_call' = [op |-> "unregister_agent", agent_id |-> agent_id]
    /\ UNCHANGED <<tasks, task_results, agent_groups, conversations, uuids,
                   weaver_history>>
    /\ OnlyWeaver

DoUnregisterAgent == \E agent_id \in AgentIds : UnregisterAgent(agent_id)

NextRegistry == DoRegisterAgent \/ DoUnregisterAgent

\* the agent under register_agent and unregister_agent calls
SpecRegistry == Init /\ [][NextRegistry]_vars

(***************************************************************************)
(* Tasks and conversations.                                                *)
(***************************************************************************)
\* str(uuid.uuid4()): the n-th value drawn, different from every other
Uuid(n) ==
    <<"u1", "u2", "u3", "u4", "u5", "u6", "u7", "u8", "u9", "u10", "u11",
      "u12">>[n]

\* register_agent calls that differ in the agent only
DoRegisterPlain ==
    \E profile \in AgentProfiles : RegisterAgent(profile, "http://e1", NoneArg)

\* Python truthiness of an optional dict argument: None and {} are falsy
OrEmptyDict(metadata) == IF metadata.some THEN metadata.val ELSE << >>

\* mutant: the conversation object is made and not stored
CreateConversationUnstored(convs, system_prompt, conversation_id, metadata, fresh) ==
    [id |-> IF TruthyStr(conversation_id) THEN conversation_id.val ELSE fresh,
     conversations |-> convs]

\* BaseAgent.create_conversation: the id given or a fresh one, the system
\* prompt as first message if it is truthy; the conversation is stored
\* under its id, replacing one of the same id
CreateConversation(convs, system_prompt, conversation_id, metadata, fresh) ==
    LET id == IF TruthyStr(conversation_id) THEN conversation_id.val ELSE fresh
        messages == IF system_prompt.some /\ system_prompt.val # << >>
                    THEN <<[role |-> "system", content |-> system_prompt.val]>>
                    ELSE << >>
    IN [id |-> id,
        conversations |->
           Put(convs, id, [id |-> id, messages |-> messages,
                           metadata |-> OrEmptyDict(metadata)])]

\* BaseAgent.add_message: the message is appended if the conversation exists
AddMessage(convs, conversation_id, message) ==
    IF conversation_id \notin DOMAIN convs THEN convs
    ELSE [convs EXCEPT ![conversation_id].messages = Append(@, message)]

\* description arguments of assign_task
Descriptions == {"d1"}

\* assign_task(agent_id, description, deadline, metadata): an error result
\* if the agent is not registered; otherwise a task under a fresh id with a
\* conversation of its own
AssignTask(agent_id, description, deadline, metadata) ==
    /\ IF agent_id \notin DOMAIN registered_agents
       THEN /\ weaver_result' = [status |-> "error",
                                 message |-> <<"not registered", agent_id>>]
            /\ UNCHANGED <<tasks, conversations, uuids>>
       ELSE /\ Cardinality(DOMAIN tasks) < MaxTasks
            /\ LET task_id == Uuid(uuids + 1)
                   made == CreateConversation(conversations,
                              Some(<<"Task: ", description>>), NoneArg,
                              Some([task_id |-> task_id]), Uuid(uuids + 2))
               IN /\ conversations' = made.conversations
                  /\ tasks' = Put(tasks, task_id,
                                  [id |-> task_id, agent_id |-> agent_id,
                                   description |-> description,
                                   conversation_id |-> made.id,
                                   deadline |-> deadline,
                                   metadata |-> OrEmptyDict(metadata)])
                  /\ weaver_result' =
                        [status |-> "success",
                         message |-> <<"assigned",
                                       registered_agents[agent_id].profile.name>>,
                         task_id |-> task_id,
                         conversation_id |-> made.id]
            /\ uuids' = uuids + 2
    /\ weaver_call' = [op |-> "assign_task", agent_id |-> agent_id]
    /\ UNCHANGED <<registered_agents, agent_endpoints, task_results,
                   agent_groups, memory, weaver_history>>
    /\ OnlyWeaver

DoAssignTask ==
    \E agent_id \in AgentIds, description \in Descriptions :
        AssignTask(agent_id, description, NoneArg, NoneArg)

\* the values of TaskStatus
TaskStatuses == {"pending", "in_progress", "completed", "failed"}

\* task ids a caller asks about: every id drawn so far (task ids and
\* conversation ids) and one not drawn yet
TaskIdArgs == {Uuid(n) : n \in 1..(uuids + 1)}

\* get_task_status(task_id): an error result for an unknown id; otherwise
\* the task with the stored result's status, result and error, "pending"
\* and None without a stored result; a falsy error is reported as None
GetTaskStatus(task_id) ==
    /\ weaver_result' =
          IF task_id \notin DOMAIN tasks
          THEN [status |-> "error", message |-> <<"not found", task_id>>]
          ELSE LET task == tasks[task_id]
                   stored == task_id \in DOMAIN task_results
               IN [task_id |-> task_id,
                   agent_id |-> task.agent_id,
                   agent_name |->
                      IF task.agent_id \in DOMAIN registered_agents
                      THEN registered_agents[task.agent_id].profile.name
                      ELSE <<"Unknown">>,
                   description |-> task.description,
                   status |-> IF stored THEN task_results[task_id].status
                              ELSE "pending",
                   result |-> IF stored THEN task_results[task_id].result
                              ELSE NoneArg,
                   error |-> IF stored /\ TruthyStr(task_results[task_id].error)
                             THEN task_results[task_id].error ELSE NoneArg,
                   deadline |-> task.deadline,
                   conversation_id |-> task.conversation_id]
    /\ weaver_call' = [op |-> "get_task_status", task_id |-> task_id]
    /\ UNCHANGED <<registered_agents, agent_endpoints, tasks, task_results,
                   agent_groups, conversations, memory, uuids, weaver_history>>
    /\ OnlyWeaver

DoGetTaskStatus == \E task_id \in TaskIdArgs : GetTaskStatus(task_id)

\* (status, result, error) arguments of update_task_status
UpdateStatusArgs ==
    {<<"pending", NoneArg, NoneArg>>,
     <<"completed", Some("r1"), NoneArg>>,
     <<"failed", NoneArg, Some("e1")>>,
     <<"failed", NoneArg, Some("")>>}

\* mutant: a stored task result is not replaced
StoredTaskResultFirstKept(results, task_id, task_result) ==
    IF task_id \in DOMAIN results THEN results
    ELSE Put(results, task_id, task_result)

\* self.task_results[task_id] = task_result
StoredTaskResult(results, task_id, task_result) ==
    Put(results, task_id, task_result)

\* update_task_status(task_id, status, result, error), result being named
\* result_given here: an error result for
\* an unknown id; otherwise a new TaskResult replaces the stored one
UpdateTaskStatus(task_id, status, result_given, error) ==
    /\ IF task_id \notin DOMAIN tasks
       THEN /\ weaver_result' = [status |-> "error",
                                 message |-> <<"not found", task_id>>]
            /\ UNCHANGED task_results
       ELSE /\ task_results' =
                  StoredTaskResult(task_results, task_id,
                      [task_id |-> task_id,
                       agent_id |-> tasks[task_id].agent_id,
                       status |-> status, result |-> result_given, error |-> error])
            /\ weaver_result' = [status |-> "success",
                                 message |-> <<"updated", task_id, status>>]
    /\ weaver_call' = [op |-> "update_task_status", task_id |-> task_id]
    /\ weaver_history' =
          (IF task_id \notin DOMAIN tasks THEN weaver_history
           ELSE [weaver_history EXCEPT !.updated =
                    Put(@, task_id, [status |-> status, result |-> result_given,
                                     error |-> error])])
    /\ UNCHANGED <<registered_agents, agent_endpoints, tasks, agent_groups,
                   conversations, memory, uuids>>
    /\ OnlyWeaver

DoUpdateTaskStatus ==
    \E task_id \in TaskIdArgs, args \in UpdateStatusArgs :
        UpdateTaskStatus(task_id, args[1], args[2], args[3])

\* conversation_id arguments of relay_message: left out, the id of a stored
\* conversation, or an id of the caller's
ConversationIdArgs ==
    {NoneArg, Some("c1")} \cup {Some(c) : c \in DOMAIN conversations}

\* relay_message(sender_id, receiver_id, content, conversation_id): an error
\* result unless both agents are registered; otherwise the message is
\* appended to the conversation named, which is created if it is not stored
RelayMessage(sender_id, receiver_id, content, conversation_id) ==
    /\ IF sender_id \notin DOMAIN registered_agents
       THEN /\ weaver_result' = [status |-> "error",
                                 message |-> <<"sender not registered", sender_id>>]
            /\ UNCHANGED <<conversations, uuids, weaver_history>>
       ELSE IF receiver_id \notin DOMAIN registered_agents
       THEN /\ weaver_result' = [status |-> "error",
                                 message |-> <<"receiver not registered", receiver_id>>]
            /\ UNCHANGED <<conversations, uuids, weaver_history>>
       ELSE /\ weaver_history.relayed < MaxRelayed
            /\ LET sender == registered_agents[sender_id].profile.name
                   receiver == registered_agents[receiver_id].profile.name
                   prompt == Some(<<"Conversation between ", sender, receiver>>)
                   made == IF ~TruthyStr(conversation_id)
                           THEN CreateConversation(conversations, prompt,
                                    NoneArg, NoneArg, Uuid(uuids + 1))
                           ELSE IF conversation_id.val \notin DOMAIN conversations
                           THEN CreateConversation(conversations, prompt,
                                    conversation_id, NoneArg, Uuid(uuids + 1))
                           ELSE [id |-> conversation_id.val,
                                 conversations |-> conversations]
               IN /\ conversations' =
                        AddMessage(made.conversations, made.id,
                                   [role |-> "agent", content |-> content,
                                    name |-> sender, agent_id |-> sender_id])
                  /\ uuids' = (IF TruthyStr(conversation_id) THEN uuids
                               ELSE uuids + 1)
                  /\ weaver_result' = [status |-> "success",
                                       message |-> <<"relayed", sender, receiver>>,
                                       conversation_id |-> made.id]
            /\ weaver_history' = [weaver_history EXCEPT !.relayed = @ + 1]
    /\ weaver_call' = [op |-> "relay_message", sender_id |-> sender_id,
                       receiver_id |-> receiver_id]
    /\ UNCHANGED <<registered_agents, agent_endpoints, tasks, task_results,
                   agent_groups, memory>>
    /\ OnlyWeaver

DoRelayMessage ==
    \E sender_id \in AgentIds, receiver_id \in AgentIds, conversation_id \in ConversationIdArgs :
        RelayMessage(sender_id, receiver_id, "m1", conversation_id)

NextTasks ==
    \/ DoRegisterPlain
    \/ DoUnregisterAgent
    \/ DoAssignTask
    \/ DoGetTaskStatus
    \/ DoUpdateTaskStatus
    \/ DoRelayMessage

\* the agent under registration, task and relay calls
SpecTasks == Init /\ [][NextTasks]_vars

(***************************************************************************)
(* Agent groups.                                                           *)
(***************************************************************************)
\* mutant: only the first id of the list is looked up
UnregisteredAgentsFirst(agent_ids, registered) ==
    IF agent_ids # << >> /\ agent_ids[1] \notin DOMAIN registered
    THEN <<agent_ids[1]>> ELSE << >>

\* [agent_id for agent_id in agent_ids if agent_id not in self.registered_agents]
UnregisteredAgents(agent_ids, registered) ==
    LET NotRegistered(agent_id) == agent_id \notin DOMAIN registered
    IN SelectSeq(agent_ids, NotRegistered)

\* create_agent_group(name, description, agent_ids, metadata): an error
\* result listing the ids that are not registered, if there are any;
\* otherwise the group is stored under a fresh id, with the list as given
CreateAgentGroup(name, description, agent_ids, metadata) ==
    LET unregistered_agents == UnregisteredAgents(agent_ids, registered_agents)
    IN /\ IF unregistered_agents # << >>
          THEN /\ weaver_result' =
                     [status |-> "error",
                      message |-> <<"not registered", unregistered_agents>>]
               /\ UNCHANGED <<agent_groups, uuids>>
          ELSE /\ Cardinality(DOMAIN agent_groups) < MaxGroups
               /\ LET group_id == Uuid(uuids + 1)
                  IN /\ agent_groups' =
                           Put(agent_groups, group_id,
                               [name |-> name, description |-> description,
                                agent_ids |-> agent_ids,
                                metadata |-> OrEmptyDict(metadata)])
                     /\ weaver_result' = [status |-> "success",
                                          message |-> <<"created", name>>,
                                          group_id |-> group_id]
               /\ uuids' = uuids + 1
       /\ weaver_call' = [op |-> "create_agent_group", agent_ids |-> agent_ids]
       /\ UNCHANGED <<registered_agents, agent_endpoints, tasks, task_results,
                      conversations, memory, weaver_history>>
       /\ OnlyWeaver

DoCreateAgentGroup ==
    \E agent_ids \in IdLists :
        CreateAgentGroup("g", "a group", agent_ids, NoneArg)

NextGroups ==
    \/ DoRegisterPlain
    \/ DoUnregisterAgent
    \/ DoCreateAgentGroup

\* the agent under registration and group calls
SpecGroups == Init /\ [][NextGroups]_vars

(***************************************************************************)
(* InMemorySession (src/src/memory/in_memory.py).  self._sessions is a     *)
(* Python dict that list_sessions reads in insertion order: a sequence of  *)
(* entries with distinct keys.  The clock readings kept in self._metadata  *)
(* are left out.                                                           *)
(***************************************************************************)
\* the keys of a dict, in order
DictKeys(d) == [i \in 1..Len(d) |-> d[i].key]

\* key in d
DictHas(d, key) == \E i \in 1..Len(d) : d[i].key = key

\* d.get(key): the value, or None
DictGet(d, key) ==
    IF DictHas(d, key)
    THEN Some(d[CHOOSE i \in 1..Len(d) : d[i].key = key].value)
    ELSE NoneArg

\* mutant: the value of a key the dict has is not replaced
DictPutFirstKept(d, key, value) ==
    IF DictHas(d, key) THEN d ELSE Append(d, [key |-> key, value |-> value])

\* d[key] = value: replaced in place, or appended
DictPut(d, key, value) ==
    IF DictHas(d, key)
    THEN [i \in 1..Len(d) |-> IF d[i].key = key
                              THEN [key |-> key, value |-> value] ELSE d[i]]
    ELSE Append(d, [key |-> key, value |-> value])

\* del d[key]
DictDel(d, key) ==
    LET Other(entry) == entry.key # key IN SelectSeq(d, Other)

\* session ids
SessionIds == {"s1", "s2"}

\* data arguments: None, which has no copy(), the empty dict, and two dicts
\* that differ in a value
SessionData ==
    {NoneArg, Some(<< >>), Some([k |-> "v1"]), Some([k |-> "v2"])}

\* data.copy(): a dict with the same items; None raises AttributeError
Copy(data) ==
    IF data.some THEN [raised |-> FALSE, value |-> data.val]
    ELSE [raised |-> TRUE]

\* the entry of self._metadata for a session
Timestamps == [created_at |-> "time", updated_at |-> "time"]

\* this step leaves the tracker and the agent alone
OnlySession == UNCHANGED <<tracker_vars, weaver_vars>>

\* history: the session is live with this data
Stored(history, session_id, data) ==
    Put(history, session_id, [live |-> TRUE, data |-> data.val])

\* create_session(session_id, data): stores a copy of data, replacing a
\* session of the same id, and returns True; False with nothing changed if
\* copy() raises
CreateSession(session_id, data) ==
    /\ IF Copy(data).raised
       THEN /\ session_result' = [returned |-> FALSE]
            /\ UNCHANGED <<sessions, session_metadata, session_history>>
       ELSE /\ sessions' = DictPut(sessions, session_id, Copy(data).value)
            /\ session_metadata' = Put(session_metadata, session_id, Timestamps)
            /\ session_result' = [returned |-> TRUE]
            /\ session_history' = Stored(session_history, session_id, data)
    /\ session_call' = [op |-> "create_session", session_id |-> session_id]
    /\ OnlySession

DoCreateSession ==
    \E session_id \in SessionIds, data \in SessionData :
        CreateSession(session_id, data)

\* get_session(session_id): a copy of the stored data, or None
GetSession(session_id) ==
    /\ session_result' =
          [returned |->
              LET session_data == DictGet(sessions, session_id)
              IN IF session_data.some
                 THEN Some(Copy(session_data).value) ELSE NoneArg]
    /\ session_call' = [op |-> "get_session", session_id |-> session_id]
    /\ UNCHANGED <<sessions, session_metadata, session_history>>
    /\ OnlySession

DoGetSession == \E session_id \in SessionIds : GetSession(session_id)

\* update_session(session_id, data): False for an id that is not stored;
\* otherwise as create_session
UpdateSession(session_id, data) ==
    /\ IF ~DictHas(sessions, session_id) \/ Copy(data).raised
       THEN /\ session_result' = [returned |-> FALSE]
            /\ UNCHANGED <<sessions, session_metadata, session_history>>
       ELSE /\ sessions' = DictPut(sessions, session_id, Copy(data).value)
            /\ session_metadata' =
                  (IF session_id \in DOMAIN session_metadata
                   THEN [session_metadata EXCEPT
                            ![session_id].updated_at = "time"]
                   ELSE session_metadata)
            /\ session_result' = [returned |-> TRUE]
            /\ session_history' = Stored(session_history, session_id, data)
    /\ session_call' = [op |-> "update_session", session_id |-> session_id]
    /\ OnlySession

DoUpdateSession ==
    \E session_id \in SessionIds, data \in SessionData :
        UpdateSession(session_id, data)

\* delete_session(session_id): the session and its metadata are deleted and
\* True is returned; False for an id that is not stored
DeleteSession(session_id) ==
    /\ IF DictHas(sessions, session_id)
       THEN /\ sessions' = DictDel(sessions, session_id)
            /\ session_metadata' =
                  (IF session_id \in DOMAIN session_metadata
                   THEN Del(session_metadata, session_id)
                   ELSE session_metadata)
            /\ session_result' = [returned |-> TRUE]
            /\ session_history' =
                  [session_history EXCEPT ![session_id].live = FALSE]
       ELSE /\ session_result' = [returned |-> FALSE]
            /\ UNCHANGED <<sessions, session_metadata, session_history>>
    /\ session_call' = [op |-> "delete_session", session_id |-> session_id]
    /\ OnlySession

DoDeleteSession == \E session_id \in SessionIds : DeleteSession(session_id)

\* list_sessions(): list(self._sessions.keys())
ListSessions ==
    /\ session_result' = [returned |-> DictKeys(sessions)]
    /\ session_call' = [op |-> "list_sessions"]
    /\ UNCHANGED <<sessions, session_metadata, session_history>>
    /\ OnlySession

NextSession ==
    \/ DoCreateSession
    \/ DoGetSession
    \/ DoUpdateSession
    \/ DoDeleteSession
    \/ ListSessions

\* the session store under its five methods
SpecSession == Init /\ [][NextSession]_vars

(***************************************************************************)
(* Notions the properties below are stated in.                             *)
(***************************************************************************)
Known == DOMAIN trust_network

IsRecommendationCall == last_call.op = "get_collaboration_recommendation"

\* the last call asked for a recommendation and every id given has a profile
Recommended ==
    /\ IsRecommendationCall
    /\ last_call.agent_ids # <<>>
    /\ Range(last_call.agent_ids) \subseteq Known

\* ... and no id was given twice: the request names a set of agents
RecommendedForSet ==
    /\ Recommended
    /\ Cardinality(Range(last_call.agent_ids)) = Len(last_call.agent_ids)

NoDuplicates(list) == Cardinality(Range(list)) = Len(list)

RECURSIVE SumField(_, _)
SumField(agents, field) ==
    IF agents = {} THEN Zero
    ELSE LET a == CHOOSE x \in agents : TRUE
         IN RAdd(trust_network[a][field], SumField(agents \ {a}, field))

\* the arithmetic mean of a stored field over a set of agents
MeanField(agents, field) == RDivInt(SumField(agents, field), Cardinality(agents))

\* (mean reliability + mean interaction_quality) / 2 over a set of agents
SetScore(agents) ==
    RDivInt(RAdd(MeanField(agents, "reliability"),
                 MeanField(agents, "interaction_quality")), 2)

(***************************************************************************)
(* C1: for every agent with k >= 1 update_trust calls, however interleaved *)
(* with calls for other agents, the stored reliability is the arithmetic   *)
(* mean of the k reported reliability scores and the stored                *)
(* interaction_quality the arithmetic mean of the k reported qualities.    *)
(***************************************************************************)
C1_StoredScoresAreMeans ==
    \A a \in AgentIds :
        observed[a].calls >= 1 =>
            /\ a \in Known
            /\ trust_network[a].reliability =
                   RDivInt(observed[a].sum_reliability, observed[a].calls)
            /\ trust_network[a].interaction_quality =
                   RDivInt(observed[a].sum_quality, observed[a].calls)

\* three calls for one agent with unequal scores: the mean of 0.2, 0.2, 0.8
C1_Witness ==
    \E a \in Known :
        /\ observed[a].calls = 3
        /\ trust_network[a].reliability = Rat(2, 5)
        /\ trust_network[a].interaction_quality = Rat(3, 5)

(***************************************************************************)
(* C2: with every reported score in [0,1] and an initially empty store,    *)
(* every stored reliability and interaction_quality lies in [0,1].         *)
(***************************************************************************)
C2_ScoresInUnitInterval ==
    \A a \in Known :
        /\ RGeq(trust_network[a].reliability, Zero)
        /\ RGeq(One, trust_network[a].reliability)
        /\ RGeq(trust_network[a].interaction_quality, Zero)
        /\ RGeq(One, trust_network[a].interaction_quality)

\* a profile averaged over several calls that all reported reliability 1.0
\* and interaction_quality 0.0: both ends of the interval are met
C2_Witness ==
    \E a \in Known :
        /\ trust_network[a].interactions >= 2
        /\ trust_network[a].reliability = One
        /\ trust_network[a].interaction_quality = Zero

(***************************************************************************)
(* C3: an agent has a profile exactly when update_trust was called for it, *)
(* and then its interactions equals the number of those calls (so it is    *)
(* >= 1, each call adding exactly 1).                                      *)
(***************************************************************************)
C3_InteractionsCountCalls ==
    \A a \in AgentIds :
        /\ a \in Known <=> observed[a].calls >= 1
        /\ a \in Known =>
              /\ trust_network[a].interactions = observed[a].calls
              /\ trust_network[a].interactions >= 1

\* one agent updated twice while the other has no profile yet
C3_Witness ==
    \E a \in Known :
        /\ trust_network[a].interactions = 2
        /\ \E b \in AgentIds : b \notin Known /\ observed[b].calls = 0

\* what C4 asks of a state: every supplied label held, none twice
C4_Superset ==
    \A a \in Known :
        /\ observed[a].strengths \subseteq Range(trust_network[a].strengths)
        /\ observed[a].areas \subseteq Range(trust_network[a].areas_for_growth)
        /\ NoDuplicates(trust_network[a].strengths)
        /\ NoDuplicates(trust_network[a].areas_for_growth)

\* what C4 asks of a step: no label held before is lost
C4_NeverLost ==
    \A a \in Known :
        /\ a \in DOMAIN trust_network'
        /\ Range(trust_network[a].strengths) \subseteq Range(trust_network'[a].strengths)
        /\ Range(trust_network[a].areas_for_growth)
              \subseteq Range(trust_network'[a].areas_for_growth)

(***************************************************************************)
(* C4: each agent's strengths and areas_for_growth lists hold every label  *)
(* an update_trust call for that agent supplied in that argument, hold no  *)
(* label twice, and never lose a label they held in an earlier state.      *)
(***************************************************************************)
C4_LabelsAccumulate == [](C4_Superset) /\ [][C4_NeverLost]_vars

\* both strength labels and the area label arrived over separate calls, one
\* of the labels having been supplied again
C4_Witness ==
    \E a \in Known :
        /\ trust_network[a].interactions = 3
        /\ trust_network[a].strengths = <<"y", "x">>
        /\ trust_network[a].areas_for_growth = <<"g">>

(***************************************************************************)
(* C5 as claimed: the stored collaboration_style of an agent is the style  *)
(* supplied by the most recent update_trust call for it that supplied one  *)
(* (any value other than None), and "unknown" if no call supplied one.     *)
(***************************************************************************)
C5_LastSuppliedStyleWins ==
    \A a \in Known :
        trust_network[a].collaboration_style =
            IF observed[a].style_given.some THEN observed[a].style_given.val
            ELSE "unknown"

\* the stored style is the last non-empty style supplied, else "unknown"
C5_StyleAsNamed ==
    \A a \in Known :
        trust_network[a].collaboration_style =
            IF observed[a].style_named.some THEN observed[a].style_named.val
            ELSE "unknown"

\* an update_trust call without a non-empty style leaves the style as it was
C5_UnnamedKeepsStyle ==
    \A a \in Known :
        (/\ last_call'.op = "update_trust"
         /\ last_call'.agent_id = a
         /\ observed'[a].style_named = observed[a].style_named)
        => trust_network'[a].collaboration_style = trust_network[a].collaboration_style

(***************************************************************************)
(* C5 as amended: the stored collaboration_style of an agent is the style  *)
(* of the most recent update_trust call for it that supplied a non-empty   *)
(* style, and "unknown" if there was none; a call that supplies None or    *)
(* the empty string leaves the stored style as it was.                     *)
(***************************************************************************)
C5_LastNamedStyleWins == [](C5_StyleAsNamed) /\ [][C5_UnnamedKeepsStyle]_vars

\* "analytical", then "directive", then a call with the empty string
C5_Witness ==
    \E a \in Known :
        /\ trust_network[a].interactions = 3
        /\ trust_network[a].collaboration_style = "directive"
        /\ observed[a].style_given = Some("")

(***************************************************************************)
(* C6: when agent_ids holds an id without a profile, the result of         *)
(* get_collaboration_recommendation has exactly the fields error and       *)
(* missing_agents (no score, potential or other scoring field), and        *)
(* missing_agents lists exactly the ids of agent_ids without a profile.    *)
(***************************************************************************)
C6_MissingAgentsRejected ==
    (IsRecommendationCall /\ ~(Range(last_call.agent_ids) \subseteq Known)) =>
        /\ DOMAIN result = {"error", "missing_agents"}
        /\ Range(result.missing_agents) = Range(last_call.agent_ids) \ Known

\* a request naming one agent with a profile and one id without
C6_Witness ==
    /\ IsRecommendationCall
    /\ Known # {}
    /\ Cardinality(Range(last_call.agent_ids) \ Known) = 1
    /\ Cardinality(Range(last_call.agent_ids) \cap Known) = 1
    /\ "missing_agents" \in DOMAIN result
    /\ Len(result.missing_agents) = 1

(***************************************************************************)
(* C7: for a request naming a non-empty set of agents with profiles, with  *)
(* s = (mean reliability + mean interaction_quality) / 2 over the set, the *)
(* collaboration_potential is "very high" when s >= 0.8, "high" when       *)
(* 0.6 <= s < 0.8, "moderate" when 0.4 <= s < 0.6, "challenging" when      *)
(* s < 0.4.                                                                *)
(***************************************************************************)
C7_TierOfScore ==
    RecommendedForSet =>
        LET s == SetScore(Range(last_call.agent_ids)) IN
        result.collaboration_potential =
            IF RGeq(s, Rat(4, 5)) THEN "very high"
            ELSE IF RGeq(s, Rat(3, 5)) THEN "high"
            ELSE IF RGeq(s, Rat(2, 5)) THEN "moderate"
            ELSE "challenging"

\* two agents whose score is exactly 0.8, the lower bound of "very high"
C7_Witness ==
    /\ RecommendedForSet
    /\ Len(last_call.agent_ids) = 2
    /\ SetScore(Range(last_call.agent_ids)) = Rat(4, 5)
    /\ result.collaboration_potential = "very high"

(***************************************************************************)
(* C8 as claimed: for every agent_ids list of agents with profiles,        *)
(* common_strengths holds exactly the strengths found in the strengths     *)
(* list of more than one requested agent, unique_strengths exactly those   *)
(* found in the list of exactly one; the two are disjoint and together     *)
(* cover every strength of every requested agent.                          *)
(***************************************************************************)
AgentsWithStrength(agents, strength) ==
    {a \in agents : strength \in Range(trust_network[a].strengths)}

C8_StrengthsPartitioned ==
    Recommended =>
        LET agents == Range(last_call.agent_ids)
            all == UNION {Range(trust_network[a].strengths) : a \in agents}
        IN /\ Range(result.common_strengths) =
                 {s \in all : Cardinality(AgentsWithStrength(agents, s)) > 1}
           /\ Range(result.unique_strengths) =
                 {s \in all : Cardinality(AgentsWithStrength(agents, s)) = 1}
           /\ Range(result.common_strengths) \cap Range(result.unique_strengths) = {}
           /\ Range(result.common_strengths) \cup Range(result.unique_strengths) = all

(***************************************************************************)
(* C9 as claimed: potential_challenges holds the style-adaptation          *)
(* challenge exactly when the requested agents have more than one distinct *)
(* collaboration_style and these are not solely "unknown".                 *)
(***************************************************************************)
RequestedStyles ==
    {trust_network[a].collaboration_style : a \in Range(last_call.agent_ids)}

C9_StyleChallengeUnlessAllUnknown ==
    Recommended =>
        (StyleChallenge \in Range(result.potential_challenges)
            <=> (Cardinality(RequestedStyles) > 1 /\ RequestedStyles # {"unknown"}))

(***************************************************************************)
(* C9 as amended: potential_challenges holds the style-adaptation          *)
(* challenge exactly when the requested agents have more than one distinct *)
(* collaboration_style and none of them has the style "unknown".           *)
(***************************************************************************)
C9_StyleChallengeWhenAllNamed ==
    Recommended =>
        (StyleChallenge \in Range(result.potential_challenges)
            <=> (/\ \E a, b \in Range(last_call.agent_ids) :
                       trust_network[a].collaboration_style
                           # trust_network[b].collaboration_style
                 /\ \A a \in Range(last_call.agent_ids) :
                       trust_network[a].collaboration_style # "unknown"))

\* two agents of different named styles, and the challenge is reported
C9_Witness ==
    /\ Recommended
    /\ RequestedStyles = {"analytical", "directive"}
    /\ StyleChallenge \in Range(result.potential_challenges)

(***************************************************************************)
(* C10: for a request naming a set of agents with profiles,                *)
(* recommended_approach is, in this order and with nothing else: the       *)
(* leverage-common-strengths sentence iff common_strengths is non-empty,   *)
(* the assign-by-unique-strengths sentence iff unique_strengths is         *)
(* non-empty, the verification-steps sentence iff the mean reliability of  *)
(* the set is strictly below 0.5.                                          *)
(***************************************************************************)
IsLeverage(sentence) == sentence.text = "Leverage common strengths: "
IsAssign(sentence) == sentence.text = "Assign tasks based on unique agent strengths"
IsVerify(sentence) ==
    sentence.text = "Implement verification steps to ensure reliability"

C10_ApproachSentences ==
    RecommendedForSet =>
        LET approach == result.recommended_approach
            leverage == result.common_strengths # <<>>
            assign == result.unique_strengths # <<>>
            verify == RLess(MeanField(Range(last_call.agent_ids), "reliability"),
                            Rat(1, 2))
            At(P(_)) == {i \in 1..Len(approach) : P(approach[i])}
        IN /\ Cardinality(At(IsLeverage)) = (IF leverage THEN 1 ELSE 0)
           /\ Cardinality(At(IsAssign)) = (IF assign THEN 1 ELSE 0)
           /\ Cardinality(At(IsVerify)) = (IF verify THEN 1 ELSE 0)
           /\ \A i \in 1..Len(approach) :
                 IsLeverage(approach[i]) \/ IsAssign(approach[i]) \/ IsVerify(approach[i])
           /\ \A i, j \in 1..Len(approach) :
                 \/ i >= j
                 \/ IsLeverage(approach[i]) /\ ~IsLeverage(approach[j])
                 \/ IsAssign(approach[i]) /\ IsVerify(approach[j])

\* all three sentences at once
C10_Witness ==
    /\ RecommendedForSet
    /\ Len(result.recommended_approach) = 3
    /\ IsLeverage(result.recommended_approach[1])
    /\ IsAssign(result.recommended_approach[2])
    /\ IsVerify(result.recommended_approach[3])

(***************************************************************************)
(* C11: potential_challenges holds the reliability-disparity challenge     *)
(* exactly when two of the requested agents have stored reliabilities      *)
(* more than 0.3 apart (the largest minus the smallest is strictly above   *)
(* 0.3); a request naming a single agent never gets it.                    *)
(***************************************************************************)
C11_DisparityChallengeAboveThreshold ==
    Recommended =>
        LET requested == Range(last_call.agent_ids)
            reported == ReliabilityChallenge \in Range(result.potential_challenges)
        IN /\ reported <=>
                 \E a, b \in requested :
                    RGreater(trust_network[a].reliability,
                             RAdd(trust_network[b].reliability, Rat(3, 10)))
           /\ Cardinality(requested) = 1 => ~reported

\* two agents whose reliabilities are 0.8 and 0.2: the challenge is reported
C11_Witness ==
    /\ Recommended
    /\ {trust_network[a].reliability : a \in Range(last_call.agent_ids)}
          = {Rat(4, 5), Rat(1, 5)}
    /\ ReliabilityChallenge \in Range(result.potential_challenges)

\* two agents whose reliabilities are 0.5 and 0.2, exactly 0.3 apart: no challenge
C11_WitnessAtThreshold ==
    /\ Recommended
    /\ {trust_network[a].reliability : a \in Range(last_call.agent_ids)}
          = {Rat(1, 2), Rat(1, 5)}
    /\ ReliabilityChallenge \notin Range(result.potential_challenges)

(***************************************************************************)
(* Notions the store properties are stated in.                             *)
(***************************************************************************)
\* the data file parses to a JSON object whose Python value is the map tn
FileHolds(tn) ==
    /\ data_file.kind = "json"
    /\ data_file.doc.type = "object"
    /\ JsonLoad(data_file.doc) = tn

\* the file holds the first tracker's whole map
FileHoldsMap == FileHolds(trust_network)

\* this step is an update_trust call returning on the first tracker
FirstUpdateReturns == observed' # observed

\* this step is an update_trust call returning on the second tracker
SecondUpdateReturns ==
    /\ second.state = "live"
    /\ second'.state = "live"
    /\ second'.calls = second.calls + 1

C13_FreshTrackerLoadsSameMap ==
    [][(/\ second.state = "none"
        /\ second'.state # "none"
        /\ constructed
        /\ failed_saves = 0)
       => (second'.state = "live" /\ second'.trust_network = trust_network)]_vars

\* a fresh tracker that loaded two profiles, one of them with labels
C13_Witness ==
    /\ second.state = "live"
    /\ second.calls = 0
    /\ failed_saves = 0
    /\ Known = AgentIds
    /\ \E a \in Known : trust_network[a].strengths # <<>>
    /\ second.trust_network = trust_network

(***************************************************************************)
(* C14: update_trust, get_agent_profile and                                *)
(* get_collaboration_recommendation always return a value and never        *)
(* raise, for every agent id and every agent_ids sequence, the empty       *)
(* sequence included.                                                      *)
(***************************************************************************)
C14_MethodsNeverRaise ==
    last_call.op \in {"update_trust", "get_agent_profile",
                      "get_collaboration_recommendation"}
        => "raised" \notin DOMAIN result

(***************************************************************************)
(* C15: constructing a TrustNetworkTracker never raises because of the     *)
(* data file.                                                              *)
(***************************************************************************)
C15_ConstructionNeverRaises == constructed /\ second.state # "raised"

\* a step in which update_trust returns after a failed save
C16_UpdateKept ==
    (FirstUpdateReturns /\ ~last_call'.saved) =>
        LET a == last_call'.agent_id
        IN /\ a \in Known'
           /\ result' = trust_network'[a]
           /\ trust_network'[a].interactions = observed'[a].calls
           /\ trust_network'[a].interactions =
                 (IF a \in Known THEN trust_network[a].interactions ELSE 0) + 1

\* what the queries give, failed saves or not
C16_UpdateObserved ==
    /\ (last_call.op = "get_agent_profile" /\ last_call.agent_id \in Known) =>
          /\ result = trust_network[last_call.agent_id]
          /\ result.interactions = observed[last_call.agent_id].calls
    /\ Recommended =>
          \A a \in Range(last_call.agent_ids) :
             /\ result.agents[a] = trust_network[a]
             /\ result.agents[a].interactions = observed[a].calls

(***************************************************************************)
(* C16: when the save step fails, update_trust still returns the updated   *)
(* profile and the in-memory map holds the update; get_agent_profile and   *)
(* get_collaboration_recommendation afterwards give the updated values     *)
(* (every update_trust call counted, whatever became of its save).         *)
(***************************************************************************)
C16_FailedSaveKeepsUpdate == [](C16_UpdateObserved) /\ [][C16_UpdateKept]_vars

\* no save ever succeeded, and get_agent_profile gives a profile of two
\* interactions
C16_Witness ==
    /\ data_file = AbsentFile
    /\ failed_saves = 2
    /\ last_call.op = "get_agent_profile"
    /\ last_call.agent_id \in Known
    /\ result.interactions = 2

(***************************************************************************)
(* C17: once an agent id has a profile it has one in every later state:    *)
(* no operation removes a profile from a tracker's map.                    *)
(***************************************************************************)
C17_ProfilesNeverRemoved ==
    [][/\ Known \subseteq Known'
       /\ second.state = "live" =>
             /\ second'.state = "live"
             /\ DOMAIN second.trust_network \subseteq DOMAIN second'.trust_network]_vars

\* a profile updated twice is still there after another agent's first update
C17_Witness ==
    /\ last_call.op = "update_trust"
    /\ observed[last_call.agent_id].calls = 1
    /\ \E a \in Known : a # last_call.agent_id /\ trust_network[a].interactions = 2

(***************************************************************************)
(* C19: two trackers on one data file: each successful save leaves in the  *)
(* file exactly the saving instance's map, nothing of what the file held   *)
(* before; so there is an interleaving after which the file lacks an       *)
(* update that an instance returned from with its save done (C19_Witness). *)
(***************************************************************************)
C19_SaveRewritesWholeDocument ==
    [][/\ (FirstUpdateReturns /\ last_call'.saved) =>
             /\ data_file'.kind = "json"
             /\ DOMAIN JsonLoad(data_file'.doc) = Known'
       /\ (SecondUpdateReturns /\ second'.saved) =>
             /\ data_file'.kind = "json"
             /\ JsonLoad(data_file'.doc) = second'.trust_network]_vars

\* no save failed, the second tracker has updated an agent and saved, and
\* the file has no profile of that agent
C19_Witness ==
    /\ constructed
    /\ failed_saves = 0
    /\ second.state = "live"
    /\ second.calls >= 1
    /\ second.saved
    /\ data_file.kind = "json"
    /\ \E a \in DOMAIN second.trust_network :
          a \notin DOMAIN JsonLoad(data_file.doc)

\* this step is a get_agent_profile or get_collaboration_recommendation
\* call returning on the first tracker
QueryReturns ==
    /\ last_call'.op \in {"get_agent_profile", "get_collaboration_recommendation"}
    /\ <<last_call, result>>' # <<last_call, result>>

(***************************************************************************)
(* C20: get_agent_profile and get_collaboration_recommendation change      *)
(* neither the in-memory map nor the file; get_agent_profile for an id     *)
(* without a profile returns the not-found error value and creates no      *)
(* profile.                                                                *)
(***************************************************************************)
C20_QueriesReadOnly ==
    [][QueryReturns =>
          /\ trust_network' = trust_network
          /\ data_file' = data_file
          /\ (last_call'.op = "get_agent_profile" /\ last_call'.agent_id \notin Known) =>
                /\ result' = [error |-> "Agent not found in trust network"]
                /\ last_call'.agent_id \notin Known']_vars

\* get_agent_profile for an unknown id on a tracker that has a saved profile
C20_Witness ==
    /\ last_call.op = "get_agent_profile"
    /\ last_call.agent_id \notin Known
    /\ Known # {}
    /\ result = [error |-> "Agent not found in trust network"]
    /\ FileHoldsMap

C21_OtherProfilesUntouched ==
    [][FirstUpdateReturns =>
          \A b \in AgentIds \ {last_call'.agent_id} :
             /\ b \in Known' <=> b \in Known
             /\ b \in Known => trust_network'[b] = trust_network[b]]_vars

\* an update for one agent has returned while the other agent has a profile
\* with a named style and labels
C21_Witness ==
    /\ last_call.op = "update_trust"
    /\ \E b \in Known \ {last_call.agent_id} :
          /\ trust_network[b].collaboration_style # "unknown"
          /\ trust_network[b].strengths # <<>>
          /\ trust_network[b].areas_for_growth # <<>>

\* the score of a request as the code computes it, one term per entry of
\* agent_ids: (mean reliability + mean interaction_quality) / 2
RequestScore ==
    LET ids == last_call.agent_ids
        Mean(field) ==
            RDivInt(SumRat([i \in 1..Len(ids) |-> trust_network[ids[i]][field]]),
                    Len(ids))
    IN RDivInt(RAdd(Mean("reliability"), Mean("interaction_quality")), 2)

\* the tier of a score by the thresholds 0.8, 0.6, 0.4
TierOf(score) ==
    CASE RGeq(score, Rat(4, 5)) -> "very high"
      [] RLess(score, Rat(4, 5)) /\ RGeq(score, Rat(3, 5)) -> "high"
      [] RLess(score, Rat(3, 5)) /\ RGeq(score, Rat(2, 5)) -> "moderate"
      [] RLess(score, Rat(2, 5)) -> "challenging"

(***************************************************************************)
(* C22 as claimed: in every successful recommendation the returned         *)
(* collaboration_potential is the tier of the returned (rounded)           *)
(* collaboration_score.                                                    *)
(***************************************************************************)
C22_TierOfReturnedScore ==
    Recommended =>
        result.collaboration_potential = TierOf(result.collaboration_score)

(***************************************************************************)
(* C22 as amended: in every successful recommendation the returned         *)
(* collaboration_potential is the tier of the score before rounding; the   *)
(* returned collaboration_score is a whole number of hundredths at most    *)
(* 0.005 away from that score, so its tier is the returned potential or,   *)
(* when rounding lifted the score onto a threshold, the tier above.        *)
(***************************************************************************)
C22_TierOfUnroundedScore ==
    Recommended =>
        LET s == RequestScore
            returned == result.collaboration_score
            distance == RSub(returned, s)
        IN /\ result.collaboration_potential = TierOf(s)
           /\ RMulInt(returned, 100).den = 1
           /\ RGeq(Rat(1, 200), distance)
           /\ RGeq(distance, Rat(-1, 200))
           /\ TierOf(returned) # TierOf(s) =>
                 /\ returned \in {Rat(4, 5), Rat(3, 5), Rat(2, 5)}
                 /\ RLess(s, returned)

\* the returned score is 0.8 and the returned potential is "high"
C22_Witness ==
    /\ Recommended
    /\ result.collaboration_score = Rat(4, 5)
    /\ result.collaboration_potential = "high"

(***************************************************************************)
(* C24: a tracker constructed over an existing file that does not parse:   *)
(* when an update_trust call of it returns with its save done (the first   *)
(* such call included), the file is a well-formed document holding exactly *)
(* the tracker's in-memory profiles, and each of them was created by an    *)
(* update_trust call made since construction: nothing of the earlier       *)
(* content is kept.                                                        *)
(***************************************************************************)
C24_UnparseableFileReplaced ==
    [][(/\ initial_file = UnparseableFile
        /\ FirstUpdateReturns
        /\ last_call'.saved) =>
            /\ FileHoldsMap'
            /\ \A a \in Known' :
                  /\ observed'[a].calls >= 1
                  /\ trust_network'[a].interactions = observed'[a].calls]_vars

\* the tracker was constructed over a file that does not parse, its first
\* update_trust failed to save, its second is the first to save, and the
\* file holds the profiles of both calls
C24_Witness ==
    /\ initial_file = UnparseableFile
    /\ second.state = "none"
    /\ last_call.op = "update_trust"
    /\ last_call.saved
    /\ failed_saves = 1
    /\ observed["a1"].calls = 1
    /\ observed["a2"].calls = 1
    /\ FileHoldsMap
    /\ DOMAIN JsonLoad(data_file.doc) = AgentIds

(***************************************************************************)
(* C23 as claimed: after any interleaving of get_trust_network(),          *)
(* initialize_trust_network() and create_trust_network_tools() calls, the  *)
(* tools created earlier hold the tracker that get_trust_network()         *)
(* currently returns, so every profile a tracker of the tools has is one   *)
(* get_trust_network().get_agent_profile finds.                            *)
(***************************************************************************)
C23_ToolsUseCurrentInstance ==
    \A t \in tools :
       /\ t = instance
       /\ \A a \in DOMAIN TrackerMap(t) :
             "error" \notin DOMAIN GetAgentProfile(TrackerMap(instance), a)

(***************************************************************************)
(* Notions the agent properties are stated in.                             *)
(***************************************************************************)
\* the ids of the registered agents
Registered == DOMAIN registered_agents

\* an API key is held in memory under api_key_<agent_id>
KeyHeld(agent_id) ==
    /\ ApiKeyName(agent_id) \in DOMAIN memory
    /\ memory[ApiKeyName(agent_id)].some

(***************************************************************************)
(* C25: in every state reached by register_agent and unregister_agent      *)
(* calls the ids of registered_agents are the ids of agent_endpoints; an   *)
(* unregister_agent call for an id that is not registered returns an error *)
(* result and changes neither map.                                         *)
(***************************************************************************)
C25_RegistryMapsAgree ==
    /\ [](Registered = DOMAIN agent_endpoints)
    /\ [][(/\ weaver_call'.op = "unregister_agent"
           /\ weaver_call'.agent_id \notin Registered) =>
              /\ weaver_result'.status = "error"
              /\ UNCHANGED <<registered_agents, agent_endpoints>>]_vars

\* one agent is registered and unregister_agent for the other, which is
\* not, has returned an error
C25_Witness ==
    /\ weaver_call.op = "unregister_agent"
    /\ weaver_result.status = "error"
    /\ weaver_call.agent_id \notin Registered
    /\ Registered # {}
    /\ Registered = DOMAIN agent_endpoints

(***************************************************************************)
(* C29 as claimed: in every state reached by register_agent and            *)
(* unregister_agent calls, an API key is held in memory under              *)
(* api_key_<id> only if the id is registered and its most recent           *)
(* register_agent call supplied an api_key.                                *)
(***************************************************************************)
C29_KeyOnlyOfLatestRegistration ==
    \A a \in AgentIds :
       KeyHeld(a) =>
          /\ a \in Registered
          /\ weaver_history.registered[a].some

(***************************************************************************)
(* C26: assign_task for an agent id that is not registered returns an      *)
(* error result and creates neither a task nor a conversation; assign_task *)
(* for a registered agent creates exactly one new task, whose              *)
(* conversation_id names a stored conversation; every stored task is kept  *)
(* as it is and names a stored conversation in every later state.          *)
(***************************************************************************)
C26_AssignTaskCreatesTaskAndConversation ==
    /\ [](\A t \in DOMAIN tasks :
             tasks[t].conversation_id \in DOMAIN conversations)
    /\ [][/\ \A t \in DOMAIN tasks :
                t \in DOMAIN tasks' /\ tasks'[t] = tasks[t]
          /\ weaver_call'.op = "assign_task" =>
                IF weaver_call'.agent_id \notin Registered
                THEN /\ weaver_result'.status = "error"
                     /\ UNCHANGED <<tasks, conversations>>
                ELSE /\ weaver_result'.status = "success"
                     /\ weaver_result'.task_id \notin DOMAIN tasks
                     /\ DOMAIN tasks' = DOMAIN tasks \cup {weaver_result'.task_id}
                     /\ tasks'[weaver_result'.task_id].conversation_id
                           \in DOMAIN conversations' \ DOMAIN conversations
          /\ weaver_call'.op # "assign_task" => DOMAIN tasks' = DOMAIN tasks]_vars

\* a task was assigned to an agent that has been unregistered since, a
\* message was relayed, and assign_task for the unregistered agent has
\* returned an error: the task and its conversation are still stored
C26_Witness ==
    /\ weaver_call.op = "assign_task"
    /\ weaver_result.status = "error"
    /\ weaver_history.relayed = 1
    /\ \E t \in DOMAIN tasks :
          /\ tasks[t].agent_id = weaver_call.agent_id
          /\ tasks[t].conversation_id \in DOMAIN conversations

\* what get_task_status reports of the stored update of a task
Reported == [status |-> weaver_result.status, result |-> weaver_result.result,
             error |-> weaver_result.error]

\* this state follows a get_task_status call for an assigned task
StatusReported ==
    /\ weaver_call.op = "get_task_status"
    /\ weaver_call.task_id \in DOMAIN tasks

\* update_task_status for an unknown task id returns an error result and
\* stores no task result
UnknownTaskUpdateRejected ==
    [][(/\ weaver_call'.op = "update_task_status"
        /\ weaver_call'.task_id \notin DOMAIN tasks) =>
           /\ weaver_result'.status = "error"
           /\ task_results' = task_results]_vars

(***************************************************************************)
(* C27 as claimed: for every assigned task get_task_status reports status  *)
(* "pending" until update_task_status is called for it, and afterwards the *)
(* status, result and error of the most recent update_task_status call for *)
(* it; update_task_status for an unknown task id returns an error result   *)
(* and stores no task result.                                              *)
(***************************************************************************)
C27_StatusOfLatestUpdate ==
    /\ [](StatusReported =>
             IF weaver_call.task_id \notin DOMAIN weaver_history.updated
             THEN weaver_result.status = "pending"
             ELSE Reported = weaver_history.updated[weaver_call.task_id])
    /\ UnknownTaskUpdateRejected

(***************************************************************************)
(* C27 as amended: for every assigned task get_task_status reports status  *)
(* "pending", result None and error None until update_task_status is       *)
(* called for it, and afterwards the status and result of the most recent  *)
(* update_task_status call for it, and its error if that is a non-empty    *)
(* string, None otherwise; update_task_status for an unknown task id       *)
(* returns an error result and stores no task result.                      *)
(***************************************************************************)
C27_StatusOfLatestUpdateErrorOrNone ==
    /\ [](StatusReported =>
             IF weaver_call.task_id \notin DOMAIN weaver_history.updated
             THEN Reported = [status |-> "pending", result |-> NoneArg,
                              error |-> NoneArg]
             ELSE LET latest == weaver_history.updated[weaver_call.task_id]
                  IN /\ weaver_result.status = latest.status
                     /\ weaver_result.result = latest.result
                     /\ weaver_result.error =
                           (IF TruthyStr(latest.error) THEN latest.error
                            ELSE NoneArg))
    /\ UnknownTaskUpdateRejected

\* a task was updated to completed with a result and then to failed with an
\* error message, and get_task_status reports the second update
C27_Witness ==
    /\ StatusReported
    /\ weaver_call.task_id \in DOMAIN weaver_history.updated
    /\ weaver_result.status = "failed"
    /\ weaver_result.error = Some("e1")
    /\ weaver_result.result = NoneArg
    /\ \E t \in DOMAIN task_results :
          t # weaver_call.task_id /\ task_results[t].status = "completed"

(***************************************************************************)
(* C28: create_agent_group is all-or-nothing: if any id in agent_ids is    *)
(* not registered it returns an error result naming the ids that are not   *)
(* registered and stores no group; otherwise it stores exactly one new     *)
(* group, which holds the given ids, and keeps every stored group.         *)
(***************************************************************************)
C28_GroupAllOrNothing ==
    [][weaver_call'.op = "create_agent_group" =>
          LET agent_ids == weaver_call'.agent_ids
              missing == {a \in Range(agent_ids) : a \notin Registered}
          IN IF missing # {}
             THEN /\ weaver_result'.status = "error"
                  /\ Range(weaver_result'.message[2]) = missing
                  /\ agent_groups' = agent_groups
             ELSE /\ weaver_result'.status = "success"
                  /\ weaver_result'.group_id \notin DOMAIN agent_groups
                  /\ DOMAIN agent_groups' =
                        DOMAIN agent_groups \cup {weaver_result'.group_id}
                  /\ agent_groups'[weaver_result'.group_id].agent_ids = agent_ids
                  /\ \A g \in DOMAIN agent_groups :
                        agent_groups'[g] = agent_groups[g]]_vars

\* a group of both agents is stored, one of them has been unregistered
\* since, and create_agent_group for the registered one followed by the
\* other has returned an error naming the other: still one group
C28_Witness ==
    /\ weaver_call.op = "create_agent_group"
    /\ weaver_result.status = "error"
    /\ Len(weaver_call.agent_ids) = 2
    /\ weaver_call.agent_ids[1] \in Registered
    /\ weaver_result.message[2] = <<weaver_call.agent_ids[2]>>
    /\ Cardinality(DOMAIN agent_groups) = 1
    /\ \E g \in DOMAIN agent_groups : Range(agent_groups[g].agent_ids) = AgentIds

(***************************************************************************)
(* Notions the session property is stated in.                              *)
(***************************************************************************)
\* the ids created with success and not deleted since
LiveSessions ==
    {id \in DOMAIN session_history : session_history[id].live}

(***************************************************************************)
(* C30: InMemorySession: list_sessions returns exactly the ids created and *)
(* not deleted since, each once; update_session and delete_session for an  *)
(* id that is not stored return False and change nothing; get_session      *)
(* returns the data of the most recent successful create_session or        *)
(* update_session for the id, or None if the id is not stored.             *)
(***************************************************************************)
C30_SessionsFollowCalls ==
    /\ [](/\ Range(DictKeys(sessions)) = LiveSessions
          /\ session_call.op = "list_sessions" =>
                /\ Range(session_result.returned) = LiveSessions
                /\ Len(session_result.returned) = Cardinality(LiveSessions)
          /\ session_call.op = "get_session" =>
                session_result.returned =
                   (IF session_call.session_id \in LiveSessions
                    THEN Some(session_history[session_call.session_id].data)
                    ELSE NoneArg))
    /\ [][(/\ session_call'.op \in {"update_session", "delete_session"}
           /\ session_call'.session_id \notin LiveSessions) =>
              /\ session_result'.returned = FALSE
              /\ UNCHANGED <<sessions, session_metadata>>]_vars

\* both sessions were created, s2 has been deleted since, s1 holds the data
\* of its latest create_session or update_session, and list_sessions
\* returns s1 alone
C30_Witness ==
    /\ session_call.op = "list_sessions"
    /\ session_result.returned = <<"s1">>
    /\ DOMAIN session_history = SessionIds
    /\ ~session_history["s2"].live
    /\ DictGet(sessions, "s1") = Some([k |-> "v2"])
    /\ session_history["s1"].data = [k |-> "v2"]

====
